---- MODULE Spec2Model ----
(***************************************************************************)
(* Model of questdb-typesafe-client: the literal formatter, the            *)
(* expression AST and its logical combinators, the SELECT serializer and   *)
(* the copy-on-write SelectBuilder.                                        *)
(*                                                                         *)
(* SQL text is a sequence of tokens.  Caller-supplied strings and          *)
(* identifiers are sequences of one-character tokens, so that quoting and  *)
(* escaping are computed and not assumed; the fixed fragments the code     *)
(* writes itself ("SELECT", " AS ", ...) are single tokens.                *)
(***************************************************************************)
EXTENDS Integers, Sequences, FiniteSets, TLC

VARIABLES fmtIn, fmtOut, exprArgs, exprOut, builders, last, transport, writer, client

vars == <<fmtIn, fmtOut, exprArgs, exprOut, builders, last, transport, writer, client>>

(***************************************************************************)
(* Bounds                                                                  *)
(***************************************************************************)
MaxStrLen == 2
MaxArgs == 3
MaxBuilders == 3
MaxChain == 4
MaxExecChain == 3

(***************************************************************************)
(* JavaScript values                                                       *)
(***************************************************************************)
Null == [t |-> "null"]
Undefined == [t |-> "undefined"]
Bool(b) == [t |-> "boolean", b |-> b]
Num(n) == [t |-> "number", n |-> n]
BigIntV(neg, digits) == [t |-> "bigint", neg |-> neg, digits |-> digits]
Str(s) == [t |-> "string", s |-> s]
DateV(iso) == [t |-> "date", iso |-> iso]
Arr(items) == [t |-> "array", items |-> items]
Bytes(items) == [t |-> "bytes", items |-> items]
NaN == [t |-> "nan"]

IsNullish(v) == v.t \in {"null", "undefined"}

(***************************************************************************)
(* Results of operations that may throw                                    *)
(***************************************************************************)
Ok(text) == [ok |-> TRUE, text |-> text, err |-> ""]
Throw(msg) == [ok |-> FALSE, text |-> <<>>, err |-> msg]

\* Sequential evaluation: the first error wins, otherwise the texts concatenate.
Cat(r1, r2) ==
  IF ~r1.ok THEN r1 ELSE IF ~r2.ok THEN r2 ELSE Ok(r1.text \o r2.text)

RECURSIVE CatAll(_)
CatAll(rs) == IF rs = <<>> THEN Ok(<<>>) ELSE Cat(Head(rs), CatAll(Tail(rs)))

\* Array.prototype.join over already rendered parts.
RECURSIVE JoinR(_, _)
JoinR(rs, sep) ==
  IF rs = <<>> THEN Ok(<<>>)
  ELSE IF Len(rs) = 1 THEN Head(rs)
  ELSE Cat(Head(rs), Cat(Ok(sep), JoinR(Tail(rs), sep)))

RECURSIVE JoinT(_, _)
JoinT(ts, sep) ==
  IF ts = <<>> THEN <<>>
  ELSE IF Len(ts) = 1 THEN Head(ts)
  ELSE Head(ts) \o sep \o JoinT(Tail(ts), sep)

(***************************************************************************)
(* escape.ts                                                               *)
(***************************************************************************)
Letters == {"a", "b", "c", "d", "e", "f", "g", "h", "i", "j", "k", "l", "m",
            "n", "o", "p", "q", "r", "s", "t", "u", "v", "w", "x", "y", "z", "_"}
Digits == {"0", "1", "2", "3", "4", "5", "6", "7", "8", "9"}

\* /^[a-zA-Z_][a-zA-Z0-9_]*$/
IsSafeIdentifier(name) ==
  /\ Len(name) > 0
  /\ name[1] \in Letters
  /\ \A i \in 2..Len(name) : name[i] \in Letters \cup Digits

RECURSIVE ReplaceAll(_, _, _)
ReplaceAll(s, c, by) ==
  IF s = <<>> THEN <<>>
  ELSE (IF Head(s) = c THEN by ELSE <<Head(s)>>) \o ReplaceAll(Tail(s), c, by)

escapeIdentifier(name) ==
  IF IsSafeIdentifier(name) THEN name
  ELSE <<"\"">> \o ReplaceAll(name, "\"", <<"\"", "\"">>) \o <<"\"">>

escapeString(value) == ReplaceAll(value, "'", <<"'", "'">>)

(***************************************************************************)
(* String(value) and `${value}` of JavaScript                              *)
(***************************************************************************)
DigitChar == <<"0", "1", "2", "3", "4", "5", "6", "7", "8", "9">>

RECURSIVE NatStr(_)
NatStr(n) ==
  IF n < 10 THEN <<DigitChar[n + 1]>>
  ELSE NatStr(n \div 10) \o NatStr(n % 10)

NumStr(n) == IF n < 0 THEN <<"-">> \o NatStr(-n) ELSE NatStr(n)

RECURSIVE ToStr(_)
RECURSIVE JoinValues(_)
\* Array.prototype.join(","): null and undefined elements render as "".
JoinValues(items) ==
  IF items = <<>> THEN <<>>
  ELSE (IF IsNullish(Head(items)) THEN <<>> ELSE ToStr(Head(items)))
       \o (IF Len(items) > 1 THEN <<",">> \o JoinValues(Tail(items)) ELSE <<>>)

ToStr(v) ==
  CASE v.t = "null" -> <<"null">>
    [] v.t = "undefined" -> <<"undefined">>
    [] v.t = "boolean" -> IF v.b THEN <<"true">> ELSE <<"false">>
    [] v.t = "number" -> NumStr(v.n)
    [] v.t = "nan" -> <<"NaN">>
    [] v.t = "bigint" -> (IF v.neg THEN <<"-">> ELSE <<>>) \o v.digits
    [] v.t = "string" -> v.s
    [] v.t = "date" -> <<"DateString">>
    [] v.t = "array" -> JoinValues(v.items)
    [] v.t = "bytes" -> JoinValues(v.items)

Truthy(v) ==
  CASE v.t \in {"null", "undefined", "nan"} -> FALSE
    [] v.t = "boolean" -> v.b
    [] v.t = "number" -> v.n # 0
    [] v.t = "bigint" -> v.digits # <<"0">>
    [] v.t = "string" -> v.s # <<>>
    [] OTHER -> TRUE

(***************************************************************************)
(* sql/escape.ts: formatValue                                              *)
(***************************************************************************)
QuestDBType ==
  {"boolean", "byte", "short", "char", "int", "float", "long", "double",
   "decimal", "date", "timestamp", "timestamp_ns", "symbol", "varchar",
   "string", "uuid", "ipv4", "binary", "long256", "geohash", "array"}

Quoted(s) == <<"'">> \o escapeString(s) \o <<"'">>

\* variant: a binary value falls through to the default case
formatBinaryQuoted(value) == Ok(Quoted(ToStr(value)))

\* case "binary"
formatBinary(value) ==
  Throw("Binary values cannot be inserted via SQL; use the /imp endpoint")

\* the switch of formatValue
formatNonNull(value, type) ==
       CASE type = "boolean" -> Ok(IF Truthy(value) THEN <<"true">> ELSE <<"false">>)
         [] type \in {"byte", "short", "int", "float", "double"} -> Ok(ToStr(value))
         [] type = "long" -> Ok(ToStr(value))
         [] type = "decimal" -> Ok(Quoted(ToStr(value)))
         [] type = "char" -> Ok(Quoted(ToStr(value)))
         [] type \in {"varchar", "string", "symbol", "uuid", "ipv4", "long256"} ->
              Ok(Quoted(ToStr(value)))
         [] type \in {"timestamp", "date"} ->
              IF value.t = "date" THEN Ok(<<"'">> \o value.iso \o <<"'">>)
              ELSE IF value.t \in {"number", "nan", "bigint"} THEN Ok(ToStr(value))
              ELSE Ok(Quoted(ToStr(value)))
         [] type = "timestamp_ns" -> Ok(ToStr(value))
         [] type = "geohash" -> Ok(<<"##">> \o ToStr(value))
         [] type = "binary" -> formatBinary(value)
         [] type = "array" ->
              IF value.t = "array" THEN Ok(<<"{">> \o JoinValues(value.items) \o <<"}">>)
              ELSE Throw("Expected array value")
         [] OTHER -> Ok(Quoted(ToStr(value)))

\* variant: the switch without the null test in front of it
formatValueNoNullTest(value, type) == formatNonNull(value, type)

formatValue(value, type) ==
  IF IsNullish(value) THEN Ok(<<"NULL">>) ELSE formatNonNull(value, type)

(***************************************************************************)
(* types/sql.ts: the expression AST.  An absent optional string (table,    *)
(* alias, tolerance) is the empty sequence, which JavaScript also treats   *)
(* as falsy.                                                               *)
(***************************************************************************)
Absent == <<>>

Col(name, table) == [kind |-> "column", name |-> name, table |-> table]
Lit(value, type) == [kind |-> "literal", value |-> value, type |-> type]
Bin(op, left, right) == [kind |-> "binary", op |-> op, left |-> left, right |-> right]
Un(op, operand) == [kind |-> "unary", op |-> op, operand |-> operand]
Func(name, args) == [kind |-> "function", name |-> name, args |-> args]
Agg(name, args, alias) == [kind |-> "aggregate", name |-> name, args |-> args, alias |-> alias]
Subquery(sql) == [kind |-> "subquery", sql |-> sql]
TsIn(column, interval) == [kind |-> "timestamp_in", column |-> column, interval |-> interval]
InList(column, values) == [kind |-> "in_list", column |-> column, values |-> values]
Between(column, low, high) == [kind |-> "between", column |-> column, low |-> low, high |-> high]
IsNullE(column, negated) == [kind |-> "is_null", column |-> column, negated |-> negated]
Raw(sql) == [kind |-> "raw", sql |-> sql]

(***************************************************************************)
(* query/expression.ts                                                     *)
(***************************************************************************)
inferQdbType(value) ==
  CASE value.t = "boolean" -> "boolean"
    [] value.t = "bigint" -> "long"
    [] value.t \in {"number", "nan"} -> "double"
    [] value.t = "date" -> "timestamp"
    [] OTHER -> "varchar"

\* One method of the facade buildColumnExpr(name, table) returns, applied to
\* its arguments: call = [m |-> method, a |-> first argument, b |-> second].
buildColumnExpr(name, table, call) ==
  LET colRef == Col(name, table)
      cmp(op) == Bin(op, colRef, Lit(call.a, inferQdbType(call.a)))
  IN CASE call.m = "eq" -> cmp("=")
       [] call.m = "neq" -> cmp("!=")
       [] call.m = "gt" -> cmp(">")
       [] call.m = "gte" -> cmp(">=")
       [] call.m = "lt" -> cmp("<")
       [] call.m = "lte" -> cmp("<=")
       [] call.m = "in" ->
            InList(name, [i \in 1..Len(call.a) |->
                            Lit(call.a[i], inferQdbType(call.a[i]))])
       [] call.m = "isNull" -> IsNullE(name, FALSE)
       [] call.m = "isNotNull" -> IsNullE(name, TRUE)
       [] call.m = "between" ->
            Between(name, Lit(call.a, inferQdbType(call.a)),
                          Lit(call.b, inferQdbType(call.b)))
       [] call.m = "like" -> Bin("LIKE", colRef, Lit(call.a, "varchar"))
       [] call.m = "matches" -> Bin("~", colRef, Lit(call.a, "varchar"))
       [] call.m = "ref" -> colRef

\* exprs.reduce((acc, expr) => binary(op, acc, expr)) without initial value.
RECURSIVE Reduce(_, _, _)
Reduce(op, acc, rest) ==
  IF rest = <<>> THEN acc
  ELSE Reduce(op, Bin(op, acc, Head(rest)), Tail(rest))

RECURSIVE ReduceRight(_, _)
ReduceRight(op, exprs) ==
  IF Len(exprs) = 1 THEN Head(exprs)
  ELSE Bin(op, Head(exprs), ReduceRight(op, Tail(exprs)))

\* The value an and()/or() call produces: [ok, expr, err].
Returned(e) == [ok |-> TRUE, expr |-> e, err |-> ""]
Raised(msg) == [ok |-> FALSE, expr |-> Raw(<<>>), err |-> msg]

\* variant: a fold from the right
combineRightAssoc(op, exprs) ==
  IF Len(exprs) = 0 THEN Raised("requires at least one expression")
  ELSE Returned(ReduceRight(op, exprs))

combine(op, exprs) ==
  IF Len(exprs) = 0 THEN Raised("requires at least one expression")
  ELSE IF Len(exprs) = 1 THEN Returned(exprs[1])
  ELSE Returned(Reduce(op, Head(exprs), Tail(exprs)))

and(exprs) == combine("AND", exprs)
or(exprs) == combine("OR", exprs)
not(expr) == Un("NOT", expr)

agg(name, col, alias) ==
  Agg(name, IF col # Absent THEN <<Col(col, Absent)>> ELSE <<>>, alias)

(***************************************************************************)
(* References.  A field of a SelectNode that holds an array or a clause    *)
(* object holds a reference: oid is the identity of the object (the index  *)
(* of the builder whose construction allocated it), v its contents.  Two   *)
(* references to the same field with the same oid are the same JavaScript  *)
(* object.  A null field has oid 0.                                        *)
(***************************************************************************)
Obj(oid, v) == [oid |-> oid, v |-> v]
NullRef == [oid |-> 0, v |-> Null]
IsNull(ref) == ref.v = Null

\* { ...base, ...patch }
Overlay(base, patch) ==
  [f \in DOMAIN base |-> IF f \in DOMAIN patch THEN patch[f] ELSE base[f]]

Table(name, alias) == [kind |-> "table", name |-> name, alias |-> alias]
SubqueryFrom(select, alias) == [kind |-> "subquery", select |-> select, alias |-> alias]

FillKw(name) == [k |-> "kw", name |-> name]
FillConstant(value) == [k |-> "constant", constant |-> value]

(***************************************************************************)
(* sql/serialize.ts                                                        *)
(***************************************************************************)
RECURSIVE serializeExpr(_)
RECURSIVE serializeSelect(_)
RECURSIVE serializeFrom(_)
RECURSIVE serializeArgs(_)

\* expr.args.map(serializeExpr), as a sequence of results
serializeArgs(args) ==
  IF args = <<>> THEN <<>>
  ELSE <<serializeExpr(Head(args))>> \o serializeArgs(Tail(args))

serializeExpr(expr) ==
  CASE expr.kind = "column" ->
         IF expr.table # Absent
         THEN Ok(escapeIdentifier(expr.table) \o <<".">> \o escapeIdentifier(expr.name))
         ELSE Ok(escapeIdentifier(expr.name))
    [] expr.kind = "literal" -> formatValue(expr.value, expr.type)
    [] expr.kind = "binary" ->
         CatAll(<<Ok(<<"(">>), serializeExpr(expr.left), Ok(<<" ", expr.op, " ">>),
                  serializeExpr(expr.right), Ok(<<")">>)>>)
    [] expr.kind = "unary" ->
         CatAll(<<Ok(<<"(", expr.op, " ">>), serializeExpr(expr.operand), Ok(<<")">>)>>)
    [] expr.kind = "function" ->
         CatAll(<<Ok(<<expr.name, "(">>), JoinR(serializeArgs(expr.args), <<", ">>),
                  Ok(<<")">>)>>)
    [] expr.kind = "aggregate" ->
         LET fn == CatAll(<<Ok(<<expr.name, "(">>),
                            JoinR(serializeArgs(expr.args), <<", ">>), Ok(<<")">>)>>)
         IN IF expr.alias # Absent
            THEN Cat(fn, Ok(<<" AS ">> \o escapeIdentifier(expr.alias)))
            ELSE fn
    [] expr.kind = "subquery" ->
         CatAll(<<Ok(<<"(">>), serializeSelect(expr.sql), Ok(<<")">>)>>)
    [] expr.kind = "timestamp_in" ->
         Ok(escapeIdentifier(expr.column) \o <<" IN ", "'">>
            \o escapeString(expr.interval) \o <<"'">>)
    [] expr.kind = "in_list" ->
         CatAll(<<Ok(escapeIdentifier(expr.column) \o <<" IN (">>),
                  JoinR(serializeArgs(expr.values), <<", ">>), Ok(<<")">>)>>)
    [] expr.kind = "between" ->
         CatAll(<<Ok(escapeIdentifier(expr.column) \o <<" BETWEEN ">>),
                  serializeExpr(expr.low), Ok(<<" AND ">>), serializeExpr(expr.high)>>)
    [] expr.kind = "is_null" ->
         IF expr.negated
         THEN Ok(escapeIdentifier(expr.column) \o <<" IS NOT NULL">>)
         ELSE Ok(escapeIdentifier(expr.column) \o <<" IS NULL">>)
    [] expr.kind = "raw" -> Ok(expr.sql)

serializeFrom(from) ==
  IF from.kind = "table"
  THEN LET name == escapeIdentifier(from.name)
       IN IF from.alias # Absent
          THEN Ok(name \o <<" ">> \o escapeIdentifier(from.alias))
          ELSE Ok(name)
  ELSE CatAll(<<Ok(<<"(">>), serializeSelect(from.select),
                Ok(<<")", " ">> \o escapeIdentifier(from.alias))>>)

\* variant: an empty projection list joined as it is, without the star
SelectLineEmptyList(node) ==
  LET selectKw == IF node.distinct THEN "SELECT DISTINCT" ELSE "SELECT"
      cols == [i \in 1..Len(node.columns.v) |->
                 LET c == node.columns.v[i]
                     expr == serializeExpr(c.expr)
                 IN IF c.alias # Absent
                    THEN Cat(expr, Ok(<<" AS ">> \o escapeIdentifier(c.alias)))
                    ELSE expr]
  IN Cat(Ok(<<selectKw, " ">>), JoinR(cols, <<", ">>))

SelectLine(node) ==
  LET selectKw == IF node.distinct THEN "SELECT DISTINCT" ELSE "SELECT"
      cols == [i \in 1..Len(node.columns.v) |->
                 LET c == node.columns.v[i]
                     expr == serializeExpr(c.expr)
                 IN IF c.alias # Absent
                    THEN Cat(expr, Ok(<<" AS ">> \o escapeIdentifier(c.alias)))
                    ELSE expr]
  IN IF Len(node.columns.v) = 0
     THEN Ok(<<selectKw, " ", "*">>)
     ELSE Cat(Ok(<<selectKw, " ">>), JoinR(cols, <<", ">>))

FromLine(node) == Cat(Ok(<<"FROM", " ">>), serializeFrom(node.from.v))

JoinLines(node) ==
  [i \in 1..Len(node.joins.v) |->
     LET join == node.joins.v[i]
         joinStr == Cat(Ok(<<join.type, " JOIN ">>), serializeFrom(join.table))
     IN IF join.on # Null
        THEN CatAll(<<joinStr, Ok(<<" ON ">>), serializeExpr(join.on)>>)
        ELSE joinStr]

LatestOnLines(node) ==
  IF ~IsNull(node.latestOn)
  THEN <<Ok(<<"LATEST ON", " ">> \o escapeIdentifier(node.latestOn.v.timestamp)
            \o <<" PARTITION BY ">>
            \o JoinT([i \in 1..Len(node.latestOn.v.partitionBy) |->
                        escapeIdentifier(node.latestOn.v.partitionBy[i])], <<", ">>))>>
  ELSE <<>>

WhereLines(node) ==
  IF ~IsNull(node.where)
  THEN <<Cat(Ok(<<"WHERE", " ">>), serializeExpr(node.where.v))>>
  ELSE <<>>

SampleByLines(node) ==
  IF ~IsNull(node.sampleBy)
  THEN LET sb == node.sampleBy.v
           fills == [i \in 1..Len(sb.fill) |->
                       IF sb.fill[i].k = "constant"
                       THEN ToStr(sb.fill[i].constant)
                       ELSE <<sb.fill[i].name>>]
       IN <<Ok(<<"SAMPLE BY", " ">> \o sb.interval)>>
          \o (IF Len(sb.fill) > 0
              THEN <<Ok(<<"FILL(">> \o JoinT(fills, <<", ">>) \o <<")">>)>>
              ELSE <<>>)
          \o (IF sb.align # Absent
              THEN <<Ok(<<"ALIGN TO", " ">> \o sb.align)>>
              ELSE <<>>)
  ELSE <<>>

GroupByLines(node) ==
  IF Len(node.groupBy.v) > 0
  THEN <<Cat(Ok(<<"GROUP BY", " ">>), JoinR(serializeArgs(node.groupBy.v), <<", ">>))>>
  ELSE <<>>

OrderByLines(node) ==
  IF Len(node.orderBy.v) > 0
  THEN LET orders == [i \in 1..Len(node.orderBy.v) |->
                        Cat(serializeExpr(node.orderBy.v[i].expr),
                            Ok(<<" ", node.orderBy.v[i].direction>>))]
       IN <<Cat(Ok(<<"ORDER BY", " ">>), JoinR(orders, <<", ">>))>>
  ELSE <<>>

LimitLines(node) ==
  IF ~IsNull(node.limit)
  THEN <<Ok(<<"LIMIT", " ">> \o ToStr(node.limit.v.count)
            \o (IF node.limit.v.offset # Undefined
                THEN <<", ">> \o ToStr(node.limit.v.offset)
                ELSE <<>>))>>
  ELSE <<>>

\* variant: WHERE pushed before LATEST ON
serializeSelectWhereFirst(node) ==
  JoinR(<<SelectLine(node), FromLine(node)>> \o JoinLines(node)
        \o WhereLines(node) \o LatestOnLines(node) \o SampleByLines(node)
        \o GroupByLines(node) \o OrderByLines(node) \o LimitLines(node),
        <<"\n">>)

serializeSelect(node) ==
  JoinR(<<SelectLine(node), FromLine(node)>> \o JoinLines(node)
        \o LatestOnLines(node) \o WhereLines(node) \o SampleByLines(node)
        \o GroupByLines(node) \o OrderByLines(node) \o LimitLines(node),
        <<"\n">>)

(***************************************************************************)
(* sql/serialize.ts: INSERT and UPDATE.  A cell of the row matrix is a     *)
(* JavaScript value or the raw token object { _rawSQL }.                   *)
(***************************************************************************)
RawSQL(text) == [t |-> "rawsql", _rawSQL |-> text]

serializeInsert(node) ==
  IF Len(node.values) = 0 THEN Throw("INSERT requires at least one row")
  ELSE LET valueRows ==
             [r \in 1..Len(node.values) |->
                JoinR([i \in 1..Len(node.values[r]) |->
                         LET val == node.values[r][i]
                         IN IF val.t = "rawsql" THEN Ok(val._rawSQL)
                            ELSE formatValue(val, IF i <= Len(node.columnTypes)
                                                  THEN node.columnTypes[i]
                                                  ELSE "varchar")],
                      <<", ">>)]
           rowLines == JoinR([r \in 1..Len(valueRows) |->
                                CatAll(<<Ok(<<"(">>), valueRows[r], Ok(<<")">>)>>)],
                             <<",", "\n">>)
       IN JoinR(<<Ok(<<"INSERT INTO", " ">> \o escapeIdentifier(node.table)),
                  Ok(<<"(">> \o JoinT([i \in 1..Len(node.columns) |->
                                         escapeIdentifier(node.columns[i])], <<", ">>)
                     \o <<")">>),
                  Ok(<<"VALUES">>),
                  rowLines>>, <<"\n">>)

serializeUpdate(node) ==
  LET sets == [i \in 1..Len(node.set) |->
                 Cat(Ok(escapeIdentifier(node.set[i].column) \o <<" = ">>),
                     serializeExpr(node.set[i].value))]
  IN JoinR(<<Ok(<<"UPDATE", " ">> \o escapeIdentifier(node.table)),
             Cat(Ok(<<"SET", " ">>), JoinR(sets, <<", ">>))>>
           \o (IF node.from # Undefined
               THEN <<Cat(Ok(<<"FROM", " ">>), serializeFrom(node.from))>>
               ELSE <<>>)
           \o (IF node.where # Null
               THEN <<Cat(Ok(<<"WHERE", " ">>), serializeExpr(node.where))>>
               ELSE <<>>),
           <<"\n">>)

(***************************************************************************)
(* query/insert.ts, query/update.ts.  A row is an object: a sequence of    *)
(* [name, value] entries in key order.                                     *)
(***************************************************************************)
Get(obj, name) ==
  IF \E i \in 1..Len(obj) : obj[i].name = name
  THEN obj[CHOOSE i \in 1..Len(obj) : obj[i].name = name].value
  ELSE Undefined

RECURSIVE SelectSeq2(_, _)
SelectSeq2(s, keep) ==
  IF s = <<>> THEN <<>>
  ELSE (IF Head(s) \in keep THEN <<Head(s)>> ELSE <<>>) \o SelectSeq2(Tail(s), keep)

\* variant: the column list is taken from the keys of the first row
InsertBuilder_toSQLFirstRowKeys(def, rows) ==
  LET allKeys == {k \in UNION {{rows[r][j].name : j \in 1..Len(rows[r])} : r \in 1..Len(rows)} :
                    Len(rows) > 0 /\ Get(rows[1], k) # Undefined}
      designatedCol ==
        IF \E i \in 1..Len(def.columns) :
             def.columns[i].meta.designated /\ def.columns[i].name \notin allKeys
        THEN def.columns[CHOOSE i \in 1..Len(def.columns) :
               /\ def.columns[i].meta.designated /\ def.columns[i].name \notin allKeys
               /\ \A j \in 1..(i - 1) :
                    ~(def.columns[j].meta.designated /\ def.columns[j].name \notin allKeys)].name
        ELSE Absent
      kept == SelectSeq2(def.columns,
                         {c \in {def.columns[i] : i \in 1..Len(def.columns)} :
                            c.name \in allKeys \/ (designatedCol # Absent /\ c.name = designatedCol)})
      colNames == [i \in 1..Len(kept) |-> kept[i].name]
      colTypes == [i \in 1..Len(kept) |-> kept[i].qdbType]
      values == [r \in 1..Len(rows) |->
                   [i \in 1..Len(colNames) |->
                      IF designatedCol # Absent /\ colNames[i] = designatedCol
                         /\ Get(rows[r], colNames[i]) = Undefined
                      THEN RawSQL(<<"now()">>)
                      ELSE IF IsNullish(Get(rows[r], colNames[i])) THEN Null
                           ELSE Get(rows[r], colNames[i])]]
  IN serializeInsert([kind |-> "insert", table |-> def.name, columns |-> colNames,
                      values |-> values, columnTypes |-> colTypes])

InsertBuilder_toSQL(def, rows) ==
  LET allKeys == {k \in UNION {{rows[r][j].name : j \in 1..Len(rows[r])} : r \in 1..Len(rows)} :
                    \E r \in 1..Len(rows) : Get(rows[r], k) # Undefined}
      designatedCol ==
        IF \E i \in 1..Len(def.columns) :
             def.columns[i].meta.designated /\ def.columns[i].name \notin allKeys
        THEN def.columns[CHOOSE i \in 1..Len(def.columns) :
               /\ def.columns[i].meta.designated /\ def.columns[i].name \notin allKeys
               /\ \A j \in 1..(i - 1) :
                    ~(def.columns[j].meta.designated /\ def.columns[j].name \notin allKeys)].name
        ELSE Absent
      kept == SelectSeq2(def.columns,
                         {c \in {def.columns[i] : i \in 1..Len(def.columns)} :
                            c.name \in allKeys \/ (designatedCol # Absent /\ c.name = designatedCol)})
      colNames == [i \in 1..Len(kept) |-> kept[i].name]
      colTypes == [i \in 1..Len(kept) |-> kept[i].qdbType]
      values == [r \in 1..Len(rows) |->
                   [i \in 1..Len(colNames) |->
                      IF designatedCol # Absent /\ colNames[i] = designatedCol
                         /\ Get(rows[r], colNames[i]) = Undefined
                      THEN RawSQL(<<"now()">>)
                      ELSE IF IsNullish(Get(rows[r], colNames[i])) THEN Null
                           ELSE Get(rows[r], colNames[i])]]
  IN serializeInsert([kind |-> "insert", table |-> def.name, columns |-> colNames,
                      values |-> values, columnTypes |-> colTypes])

UpdateNode(def) == [kind |-> "update", table |-> def.name, set |-> <<>>,
                    from |-> Undefined, where |-> Null]

RECURSIVE UpdateBuilder_set(_, _, _)
UpdateBuilder_set(def, node, values) ==
  IF values = <<>> THEN node
  ELSE LET key == Head(values).name
           value == Head(values).value
           qdbType == IF \E i \in 1..Len(def.columns) : def.columns[i].name = key
                      THEN def.columns[CHOOSE i \in 1..Len(def.columns) :
                                         def.columns[i].name = key].qdbType
                      ELSE "varchar"
       IN UpdateBuilder_set(def,
                            IF value # Undefined
                            THEN [node EXCEPT !.set = Append(@, [column |-> key,
                                                                 value |-> Lit(value, qdbType)])]
                            ELSE node,
                            Tail(values))

(***************************************************************************)
(* Table definitions (schema/define.ts): name and ordered columns.         *)
(* defineTable validates nothing at run time, so a table without a         *)
(* designated timestamp is a possible input.                               *)
(***************************************************************************)
Column(name, qdbType, designated) ==
  [name |-> name, qdbType |-> qdbType, meta |-> [designated |-> designated]]

ts == <<"t", "s">>
src == <<"s", "r", "c">>
kw == <<"k", "w">>

DefWithTs ==
  [name |-> <<"t">>,
   columns |-> <<Column(ts, "timestamp", TRUE), Column(src, "symbol", FALSE),
                 Column(kw, "double", FALSE)>>]
DefNoTs ==
  [name |-> <<"p">>,
   columns |-> <<Column(ts, "timestamp", FALSE), Column(src, "symbol", FALSE),
                 Column(kw, "double", FALSE)>>]
DefRight ==
  [name |-> <<"m">>,
   columns |-> <<Column(ts, "timestamp", TRUE), Column(src, "symbol", FALSE)>>]
Defs == {DefWithTs, DefNoTs}

ColumnNames(def) == {def.columns[i].name : i \in 1..Len(def.columns)}

\* ddl/create.ts: the first column whose meta.designated is set, or null (Absent)
findDesignatedColumn(cols) ==
  IF \E i \in 1..Len(cols) : cols[i].meta.designated
  THEN cols[CHOOSE i \in 1..Len(cols) :
              /\ cols[i].meta.designated
              /\ \A j \in 1..(i - 1) : ~cols[j].meta.designated].name
  ELSE Absent

(***************************************************************************)
(* Callbacks.  A where/on callback is modelled by the facade call it       *)
(* makes: fn = [side, col, m, a, b] calls method m of the facade of column *)
(* col (of the left or of the right table) with arguments a and b.         *)
(* buildColumnExprs builds a facade for every column of def, under the     *)
(* alias given.                                                            *)
(***************************************************************************)
Fn(side, col, m, a, b) == [side |-> side, col |-> col, m |-> m, a |-> a, b |-> b]
NoFn == [side |-> "none"]

buildColumnExprs(def, tableAlias) ==
  [name \in ColumnNames(def) |-> [alias |-> tableAlias, name |-> name]]

CallFn(fn, leftExprs, rightExprs) ==
  LET facade == IF fn.side = "right" THEN rightExprs[fn.col] ELSE leftExprs[fn.col]
  IN buildColumnExpr(facade.name, facade.alias, fn)

(***************************************************************************)
(* query/select.ts: SelectBuilder.  The pool `builders` holds every        *)
(* builder the program has created; entry k records the table, the node,   *)
(* and (as history) the builder it was derived from and the call that      *)
(* derived it.                                                             *)
(***************************************************************************)
Call(name, arg) == [name |-> name, arg |-> arg]
Entry(def, node, parent, call) ==
  [def |-> def, node |-> node, parent |-> parent, call |-> call]

NoPatch == <<>>

\* constructor(client, def, node?): defaults overlaid with node.  The array
\* literals of the defaults are objects allocated by this construction (oid k).
SelectBuilderNode(def, k, node) ==
  Overlay([kind |-> "select",
           distinct |-> FALSE,
           columns |-> Obj(k, <<>>),
           from |-> Obj(k, Table(def.name, Absent)),
           joins |-> Obj(k, <<>>),
           where |-> NullRef,
           groupBy |-> Obj(k, <<>>),
           orderBy |-> Obj(k, <<>>),
           limit |-> NullRef,
           sampleBy |-> NullRef,
           latestOn |-> NullRef], node)

construct(bs, i, node, call) ==
  Append(bs, Entry(bs[i].def,
                   SelectBuilderNode(bs[i].def, Len(bs) + 1, node), i, call))

\* variant: the patch is also written into the node of the builder called on
cloneSharedWrite(bs, i, patch, call) ==
  construct([bs EXCEPT ![i].node = Overlay(bs[i].node, patch)], i,
            Overlay(bs[i].node, patch), call)

clone(bs, i, patch, call) ==
  construct(bs, i, Overlay(bs[i].node, patch), call)

distinct(bs, i) == clone(bs, i, [distinct |-> TRUE], Call("distinct", Null))

columns(bs, i, cols) ==
  construct(bs, i,
            Overlay(bs[i].node,
                    [columns |-> Obj(Len(bs) + 1,
                                     [j \in 1..Len(cols) |->
                                        [expr |-> Col(cols[j], Absent), alias |-> Absent]])]),
            Call("columns", cols))

addExpr(bs, i, expr, alias) ==
  clone(bs, i,
        [columns |-> Obj(Len(bs) + 1,
                         bs[i].node.columns.v \o <<[expr |-> expr, alias |-> alias]>>)],
        Call("addExpr", expr))

where(bs, i, fn) ==
  LET exprs == buildColumnExprs(bs[i].def, Absent)
      newExpr == CallFn(fn, exprs, exprs)
  IN clone(bs, i, [where |-> Obj(Len(bs) + 1, newExpr)], Call("where", newExpr))

\* variant: andWhere that replaces the WHERE
andWhereReplaces(bs, i, fn) ==
  LET exprs == buildColumnExprs(bs[i].def, Absent)
      newExpr == CallFn(fn, exprs, exprs)
  IN clone(bs, i, [where |-> Obj(Len(bs) + 1, newExpr)], Call("andWhere", newExpr))

andWhere(bs, i, fn) ==
  LET exprs == buildColumnExprs(bs[i].def, Absent)
      newExpr == CallFn(fn, exprs, exprs)
      w == IF ~IsNull(bs[i].node.where)
           THEN Bin("AND", bs[i].node.where.v, newExpr)
           ELSE newExpr
  IN clone(bs, i, [where |-> Obj(Len(bs) + 1, w)], Call("andWhere", newExpr))

whereTimestamp(bs, i, column, interval) ==
  LET expr == TsIn(column, interval)
      w == IF ~IsNull(bs[i].node.where)
           THEN Bin("AND", bs[i].node.where.v, expr)
           ELSE expr
  IN clone(bs, i, [where |-> Obj(Len(bs) + 1, w)], Call("whereTimestamp", expr))

\* fill is undefined ([t |-> "undefined"]), one strategy ([t |-> "one", f |-> s])
\* or an array of strategies ([t |-> "array", items |-> fs]).
sampleBy(bs, i, interval, fill, align) ==
  LET fillArr == IF fill.t = "undefined" THEN <<>>
                 ELSE IF fill.t = "array" THEN fill.items ELSE <<fill.f>>
  IN clone(bs, i,
           [sampleBy |-> Obj(Len(bs) + 1,
                             [interval |-> interval, fill |-> fillArr, align |-> align])],
           Call("sampleBy", fill))

\* latestOn may throw: [ok, bs, err]
Done(bs) == [ok |-> TRUE, bs |-> bs, err |-> ""]
Failed(bs, msg) == [ok |-> FALSE, bs |-> bs, err |-> msg]

\* variant: latestOn without the designated-column test
latestOnUnchecked(bs, i, partitionBy) ==
  Done(clone(bs, i,
             [latestOn |-> Obj(Len(bs) + 1,
                               [timestamp |-> findDesignatedColumn(bs[i].def.columns),
                                partitionBy |-> partitionBy])],
             Call("latestOn", partitionBy)))

latestOn(bs, i, partitionBy) ==
  LET designated == findDesignatedColumn(bs[i].def.columns)
  IN IF designated = Absent
     THEN Failed(bs, "LATEST ON requires a designated timestamp column")
     ELSE Done(clone(bs, i,
                     [latestOn |-> Obj(Len(bs) + 1,
                                       [timestamp |-> designated,
                                        partitionBy |-> partitionBy])],
                     Call("latestOn", partitionBy)))

joinWith(bs, i, type, right, alias, on, tolerance) ==
  LET leftExprs == buildColumnExprs(bs[i].def, Absent)
      rightExprs == buildColumnExprs(right, alias)
      onExpr == IF on # NoFn THEN CallFn(on, leftExprs, rightExprs) ELSE Null
  IN construct(bs, i,
               Overlay(bs[i].node,
                       [joins |-> Obj(Len(bs) + 1,
                                      bs[i].node.joins.v
                                      \o <<[type |-> type,
                                            table |-> Table(right.name, alias),
                                            on |-> onExpr,
                                            tolerance |-> tolerance]>>)]),
               Call("join", type))

asofJoin(bs, i, right, alias, on, tolerance) == joinWith(bs, i, "ASOF", right, alias, on, tolerance)
ltJoin(bs, i, right, alias, on, tolerance) == joinWith(bs, i, "LT", right, alias, on, tolerance)
spliceJoin(bs, i, right, alias, on) == joinWith(bs, i, "SPLICE", right, alias, on, Absent)
innerJoin(bs, i, right, alias, on) == joinWith(bs, i, "INNER", right, alias, on, Absent)
leftJoin(bs, i, right, alias, on) == joinWith(bs, i, "LEFT", right, alias, on, Absent)
crossJoin(bs, i, right, alias) == joinWith(bs, i, "CROSS", right, alias, NoFn, Absent)

orderBy(bs, i, column, direction) ==
  clone(bs, i,
        [orderBy |-> Obj(Len(bs) + 1,
                         bs[i].node.orderBy.v
                         \o <<[expr |-> Col(column, Absent), direction |-> direction]>>)],
        Call("orderBy", column))

limit(bs, i, count, offset) ==
  clone(bs, i, [limit |-> Obj(Len(bs) + 1, [count |-> count, offset |-> offset])],
        Call("limit", count))

groupBy(bs, i, cols) ==
  clone(bs, i,
        [groupBy |-> Obj(Len(bs) + 1, [j \in 1..Len(cols) |-> Col(cols[j], Absent)])],
        Call("groupBy", cols))

SampleByError == "SAMPLE BY requires explicit columns with at least one aggregation function."

\* variant: toSQL without the SAMPLE BY test
toSQLUnchecked(b) == serializeSelect(b.node)

toSQL(b) ==
  IF ~IsNull(b.node.sampleBy) /\ Len(b.node.columns.v) = 0
  THEN Throw(SampleByError)
  ELSE serializeSelect(b.node)

(***************************************************************************)
(* Result decoding: parseResultSet and coerceValue                         *)
(***************************************************************************)
InvalidDate == [t |-> "date", iso |-> <<"Invalid Date">>]

ValOk(v) == [ok |-> TRUE, value |-> v, err |-> ""]
ValErr(msg) == [ok |-> FALSE, value |-> Null, err |-> msg]

\* questdbType.toUpperCase() for the type names the engine reports
UpperCase(type) ==
  CASE type = "timestamp" -> "TIMESTAMP" [] type = "date" -> "DATE"
    [] type = "long" -> "LONG" [] type = "timestamp_ns" -> "TIMESTAMP_NS"
    [] type = "long256" -> "LONG256" [] type = "boolean" -> "BOOLEAN"
    [] type = "byte" -> "BYTE" [] type = "short" -> "SHORT"
    [] type = "int" -> "INT" [] type = "float" -> "FLOAT"
    [] type = "double" -> "DOUBLE" [] type = "binary" -> "BINARY"
    [] type = "symbol" -> "SYMBOL" [] type = "varchar" -> "VARCHAR"
    [] OTHER -> type

IsDigits(s) == Len(s) > 0 /\ \A i \in 1..Len(s) : s[i] \in Digits

RECURSIVE ParseNat(_)
ParseNat(s) ==
  IF s = <<>> THEN 0
  ELSE 10 * ParseNat(SubSeq(s, 1, Len(s) - 1))
       + (CHOOSE d \in 0..9 : DigitChar[d + 1] = s[Len(s)])

\* The ISO-8601 texts the engine sends are digit groups separated by - T : . Z
IsIsoDate(s) ==
  /\ Len(s) > 0
  /\ s[1] \in Digits
  /\ \A i \in 1..Len(s) : s[i] \in Digits \cup {"-", "T", ":", ".", "Z"}

\* new Date(value)
NewDate(value) ==
  IF value.t = "string" /\ IsIsoDate(value.s) THEN DateV(value.s)
  ELSE IF value.t = "number" THEN DateV(<<"epoch-ms", " ">> \o NumStr(value.n))
  ELSE IF value.t = "boolean" THEN DateV(<<"epoch-ms", " ">> \o (IF value.b THEN <<"1">> ELSE <<"0">>))
  ELSE InvalidDate

\* BigInt(value) for a string or a number
ToBigInt(value) ==
  IF value.t = "number"
  THEN ValOk(BigIntV(value.n < 0, NatStr(IF value.n < 0 THEN -value.n ELSE value.n)))
  ELSE IF value.s = <<>> THEN ValOk(BigIntV(FALSE, <<"0">>))
  ELSE IF IsDigits(value.s) THEN ValOk(BigIntV(FALSE, value.s))
  ELSE IF Head(value.s) = "-" /\ IsDigits(Tail(value.s)) THEN ValOk(BigIntV(TRUE, Tail(value.s)))
  ELSE ValErr("SyntaxError: Cannot convert to a BigInt")

\* the double nearest to a decimal text too long to be held exactly
Rounded(neg, digits) == [t |-> "double", neg |-> neg, near |-> digits]
MaxExactDigits == 9

\* Number(value)
ToNumber(value) ==
  CASE value.t = "number" -> value
    [] value.t = "nan" -> NaN
    [] value.t = "boolean" -> Num(IF value.b THEN 1 ELSE 0)
    [] value.t = "string" ->
         IF value.s = <<>> THEN Num(0)
         ELSE IF IsDigits(value.s)
              THEN IF Len(value.s) <= MaxExactDigits THEN Num(ParseNat(value.s))
                   ELSE Rounded(FALSE, value.s)
         ELSE IF Head(value.s) = "-" /\ IsDigits(Tail(value.s))
              THEN IF Len(value.s) <= MaxExactDigits THEN Num(-ParseNat(Tail(value.s)))
                   ELSE Rounded(TRUE, Tail(value.s))
         ELSE NaN
    [] OTHER -> NaN

Base64Chars == Letters \cup Digits \cup {"+", "/", "="}

coerceValue(value, questdbType) ==
  IF IsNullish(value) THEN ValOk(Null)
  ELSE LET type == UpperCase(questdbType)
       IN CASE type \in {"TIMESTAMP", "DATE"} -> ValOk(NewDate(value))
            [] type \in {"LONG", "TIMESTAMP_NS", "LONG256"} ->
                 IF value.t \in {"string", "number"} THEN ToBigInt(value) ELSE ValOk(value)
            [] type = "BOOLEAN" -> ValOk(Bool(Truthy(value)))
            [] type \in {"BYTE", "SHORT", "INT", "FLOAT", "DOUBLE"} -> ValOk(ToNumber(value))
            [] type = "BINARY" ->
                 IF value.t = "string"
                 THEN IF \A i \in 1..Len(value.s) : value.s[i] \in Base64Chars
                      THEN ValOk(Bytes(<<Str(<<"atob">> \o value.s)>>))
                      ELSE ValErr("InvalidCharacterError")
                 ELSE ValOk(value)
            [] OTHER -> ValOk(value)

\* obj[name] = v on an object whose keys keep their insertion order
SetField(obj, name, v) ==
  IF \E i \in 1..Len(obj) : obj[i].name = name
  THEN [i \in 1..Len(obj) |-> IF obj[i].name = name THEN [name |-> name, value |-> v] ELSE obj[i]]
  ELSE Append(obj, [name |-> name, value |-> v])

RECURSIVE ParseRow(_, _, _, _)
ParseRow(cols, row, i, obj) ==
  IF i > Len(cols) THEN ValOk(obj)
  ELSE LET raw == IF i <= Len(row) THEN row[i] ELSE Undefined
           c == coerceValue(raw, cols[i].type)
       IN IF ~c.ok THEN c
          ELSE ParseRow(cols, row, i + 1, SetField(obj, cols[i].name, c.value))

RECURSIVE ParseRows(_, _)
ParseRows(cols, dataset) ==
  IF dataset = <<>> THEN ValOk(<<>>)
  ELSE LET r == ParseRow(cols, Head(dataset), 1, <<>>)
       IN IF ~r.ok THEN r
          ELSE LET rest == ParseRows(cols, Tail(dataset))
               IN IF ~rest.ok THEN rest ELSE ValOk(<<r.value>> \o rest.value)

\* !columns: null or undefined; an array, even an empty one, is truthy
Lacks(list) == IsNullish(list)

\* variant: only the dataset is tested, the columns default to none
parseResultSetDatasetOnly(response) ==
  IF Lacks(response.dataset) THEN ValOk(<<>>)
  ELSE ParseRows(IF Lacks(response.columns) THEN <<>> ELSE response.columns.items,
                 response.dataset.items)

parseResultSet(response) ==
  IF Lacks(response.columns) \/ Lacks(response.dataset) THEN ValOk(<<>>)
  ELSE ParseRows(response.columns.items, response.dataset.items)

(***************************************************************************)
(* The transport collaborator: client.exec(sql) resolves with a response   *)
(* body or rejects.                                                        *)
(***************************************************************************)
Resolve(body) == [ok |-> TRUE, body |-> body, err |-> ""]
Reject(msg) == [ok |-> FALSE, body |-> [columns |-> Undefined, dataset |-> Undefined], err |-> msg]

Replies ==
  {Reject("QuestDBError"),
   Resolve([columns |-> Undefined, dataset |-> Undefined]),
   Resolve([columns |-> Arr(<<[name |-> src, type |-> "SYMBOL"],
                              [name |-> kw, type |-> "DOUBLE"]>>),
            dataset |-> Arr(<<<<Str(<<"x">>), Num(4)>>, <<Str(<<"y">>), Null>>>>)])}

\* What a terminal call did: settled ok/err with a value, and the SQL texts
\* it handed to the transport, in order.
Settled(ok, value, err, sent) == [ok |-> ok, value |-> value, err |-> err, sent |-> sent]
Decoded(rows, sent) == Settled(rows.ok, rows.value, rows.err, sent)

\* the await of client.exec and the decoding of its response
received(sqlText, reply) ==
  IF ~reply.ok THEN Settled(FALSE, Null, reply.err, <<sqlText>>)
  ELSE Decoded(parseResultSet(reply.body), <<sqlText>>)

Sent(sql, reply) ==
  IF ~sql.ok THEN Settled(FALSE, Null, sql.err, <<>>) ELSE received(sql.text, reply)

execute(b, reply) == Sent(toSQL(b), reply)

\* results[0] ?? null
FirstOf(results) ==
  IF ~results.ok THEN results
  ELSE Settled(TRUE, IF Len(results.value) > 0 THEN results.value[1] ELSE Null,
               "", results.sent)

\* variant: the earlier offset is carried into the limited copy
firstKeepingOffset(bs, i, reply) ==
  FirstOf(execute(limit(bs, i, Num(1),
                        IF IsNull(bs[i].node.limit) THEN Undefined
                        ELSE bs[i].node.limit.v.offset)[Len(bs) + 1], reply))

first(bs, i, reply) ==
  FirstOf(execute(limit(bs, i, Num(1), Undefined)[Len(bs) + 1], reply))

(***************************************************************************)
(* State                                                                   *)
(*   fmtIn, fmtOut      input and result of a formatter call               *)
(*   exprArgs, exprOut  arguments and result of an and()/or() call         *)
(*   builders           the pool of SelectBuilders                         *)
(*   last               the most recent builder call and how it settled    *)
(*   transport          the SQL texts the most recent call handed to       *)
(*                      client.exec, in order                              *)
(*   writer             the InsertBuilder, UpdateBuilder, CreateBuilder or *)
(*                      AlterBuilder in use                                *)
(*   client             the QuestDBClient.exec call in progress            *)
(***************************************************************************)
Pending == [op |-> "none", r |-> Throw("pending")]
NoCall == [op |-> "none", target |-> 0, ok |-> TRUE, err |-> "", value |-> Null]
Chained(op, i) == [op |-> op, target |-> i, ok |-> TRUE, err |-> "", value |-> Null]

Root(def) == <<Entry(def, SelectBuilderNode(def, 1, NoPatch), 0, Call("select", Null))>>

IdleFormat == fmtIn = [value |-> Null, type |-> "varchar"] /\ fmtOut = Pending
IdleLogic == exprArgs = <<>> /\ exprOut = [op |-> "none", r |-> Raised("pending")]
IdleSelect == builders = Root(DefWithTs) /\ last = NoCall /\ transport = <<>>
NoWriter == [kind |-> "none"]
NoExec == [status |-> "idle"]
IdleWrite == writer = NoWriter /\ client = NoExec

(***************************************************************************)
(* Inputs                                                                  *)
(***************************************************************************)
Chars == {"a", "'", ";"}

RECURSIVE StringsUpTo(_)
StringsUpTo(n) ==
  IF n = 0 THEN {<<>>}
  ELSE StringsUpTo(n - 1)
       \cup {Append(s, c) : s \in {x \in StringsUpTo(n - 1) : Len(x) = n - 1}, c \in Chars}

Values ==
  {Null, Undefined, Bool(TRUE), Bool(FALSE), Num(0), Num(42), Num(-7), NaN,
   BigIntV(FALSE, <<"9", "2", "2", "3", "3", "7", "2", "0", "3", "6", "8", "5", "4",
                    "7", "7", "5", "8", "0", "7">>),
   BigIntV(TRUE, <<"5">>),
   DateV(<<"2", "0", "2", "6", "-", "0", "1", "-", "1", "5", "T", "1", "0", ":", "3", "0",
           ":", "0", "0", ".", "0", "0", "0", "Z">>),
   Arr(<<>>), Arr(<<Num(1), Num(2)>>), Arr(<<Num(1), Null>>), Arr(<<Str(<<"a", ";">>)>>),
   Bytes(<<Num(1), Num(2)>>)}
  \cup {Str(s) : s \in StringsUpTo(MaxStrLen)}

Atoms ==
  {buildColumnExpr(src, Absent, Fn("left", src, "eq", Str(<<"x">>), Null)),
   buildColumnExpr(kw, Absent, Fn("left", kw, "gt", Num(5), Null)),
   buildColumnExpr(kw, Absent, Fn("left", kw, "isNull", Null, Null)),
   not(Raw(<<"a">>))}

RECURSIVE SeqsUpTo(_, _)
SeqsUpTo(S, n) ==
  IF n = 0 THEN {<<>>}
  ELSE SeqsUpTo(S, n - 1)
       \cup {Append(s, x) : s \in {y \in SeqsUpTo(S, n - 1) : Len(y) = n - 1}, x \in S}

(***************************************************************************)
(* Formatter calls                                                         *)
(***************************************************************************)
CellColumn == <<"c">>
CellDef(type) ==
  [name |-> <<"t">>,
   columns |-> <<Column(ts, "timestamp", TRUE), Column(CellColumn, type, FALSE)>>]

FormatCall ==
  /\ fmtOut = Pending
  /\ fmtOut' = [op |-> "formatValue", r |-> formatValue(fmtIn.value, fmtIn.type)]
  /\ UNCHANGED <<fmtIn, exprArgs, exprOut, builders, last, transport, writer, client>>

\* table.insert([{ c: value }, { c: null }]).toSQL() on a table whose column c has the type
InsertCellCall ==
  /\ fmtOut = Pending
  /\ fmtOut' = [op |-> "insert",
                r |-> InsertBuilder_toSQL(CellDef(fmtIn.type),
                                          <<<<[name |-> CellColumn, value |-> fmtIn.value]>>,
                                            <<[name |-> CellColumn, value |-> Null]>>>>)]
  /\ UNCHANGED <<fmtIn, exprArgs, exprOut, builders, last, transport, writer, client>>

\* table.update().set({ c: value }).toSQL()
UpdateCellCall ==
  /\ fmtOut = Pending
  /\ fmtOut' = [op |-> "update",
                r |-> serializeUpdate(
                        UpdateBuilder_set(CellDef(fmtIn.type), UpdateNode(CellDef(fmtIn.type)),
                                          <<[name |-> CellColumn, value |-> fmtIn.value]>>))]
  /\ UNCHANGED <<fmtIn, exprArgs, exprOut, builders, last, transport, writer, client>>

\* what coerceValue returned or threw, as the outcome of the most recent call
Coerced(c) == [op |-> "coerceValue", target |-> 0, ok |-> c.ok, err |-> c.err, value |-> c.value]

\* The engine's response carries the text formatValue produced as the cell of a
\* column of the same type; coerceValue(cell, type) decodes it.
CoerceEchoCall ==
  /\ fmtOut.op = "formatValue" /\ fmtOut.r.ok
  /\ last = NoCall
  /\ last' = Coerced(coerceValue(Str(fmtOut.r.text), fmtIn.type))
  /\ UNCHANGED <<fmtIn, fmtOut, exprArgs, exprOut, builders, transport, writer, client>>

InitFormat ==
  /\ fmtIn \in [value : Values, type : QuestDBType]
  /\ fmtOut = Pending
  /\ IdleLogic /\ IdleSelect /\ IdleWrite

NextFormat == FormatCall \/ InsertCellCall \/ UpdateCellCall \/ CoerceEchoCall

SpecFormat == InitFormat /\ [][NextFormat]_vars

(***************************************************************************)
(* Combinator calls                                                        *)
(***************************************************************************)
AndCall ==
  /\ exprOut.op = "none"
  /\ exprOut' = [op |-> "AND", r |-> and(exprArgs)]
  /\ UNCHANGED <<fmtIn, fmtOut, exprArgs, builders, last, transport, writer, client>>

OrCall ==
  /\ exprOut.op = "none"
  /\ exprOut' = [op |-> "OR", r |-> or(exprArgs)]
  /\ UNCHANGED <<fmtIn, fmtOut, exprArgs, builders, last, transport, writer, client>>

InitLogic ==
  /\ exprArgs \in SeqsUpTo(Atoms, MaxArgs)
  /\ exprOut = [op |-> "none", r |-> Raised("pending")]
  /\ IdleFormat /\ IdleSelect /\ IdleWrite

NextLogic == AndCall \/ OrCall

SpecLogic == InitLogic /\ [][NextLogic]_vars

(***************************************************************************)
(* SelectBuilder calls.  P is the set of builders the caller may call on,  *)
(* max the size of the pool, and the last parameter the arguments drawn.   *)
(***************************************************************************)
AnyBuilder == 1..Len(builders)
Newest == {Len(builders)}

Derived(op, i, bs) ==
  /\ builders' = bs
  /\ last' = Chained(op, i)
  /\ transport' = <<>>
  /\ UNCHANGED <<fmtIn, fmtOut, exprArgs, exprOut, writer, client>>

DistinctCall(P, max) ==
  \E i \in P : Len(builders) < max /\ Derived("distinct", i, distinct(builders, i))

ColumnsCall(P, max, A) ==
  \E i \in P, cols \in A :
    Len(builders) < max /\ Derived("columns", i, columns(builders, i, cols))

AddExprCall(P, max, A) ==
  \E i \in P, a \in A :
    Len(builders) < max /\ Derived("addExpr", i, addExpr(builders, i, a.expr, a.alias))

WhereCall(P, max, A) ==
  \E i \in P, fn \in A :
    Len(builders) < max /\ Derived("where", i, where(builders, i, fn))

AndWhereCall(P, max, A) ==
  \E i \in P, fn \in A :
    Len(builders) < max /\ Derived("andWhere", i, andWhere(builders, i, fn))

WhereTimestampCall(P, max, A) ==
  \E i \in P, a \in A :
    Len(builders) < max
    /\ Derived("whereTimestamp", i, whereTimestamp(builders, i, a.column, a.interval))

SampleByCall(P, max, A) ==
  \E i \in P, a \in A :
    Len(builders) < max
    /\ Derived("sampleBy", i, sampleBy(builders, i, a.interval, a.fill, a.align))

LatestOnCall(P, max, A) ==
  \E i \in P, partitionBy \in A :
    /\ Len(builders) < max
    /\ LET r == latestOn(builders, i, partitionBy)
       IN /\ builders' = r.bs
          /\ last' = [op |-> "latestOn", target |-> i, ok |-> r.ok, err |-> r.err,
                      value |-> Null]
    /\ transport' = <<>>
    /\ UNCHANGED <<fmtIn, fmtOut, exprArgs, exprOut, writer, client>>

JoinCall(P, max, A) ==
  \E i \in P, a \in A :
    /\ Len(builders) < max
    /\ Derived("join", i,
               CASE a.type = "ASOF" -> asofJoin(builders, i, DefRight, a.alias, a.on, a.tolerance)
                 [] a.type = "LT" -> ltJoin(builders, i, DefRight, a.alias, a.on, a.tolerance)
                 [] a.type = "SPLICE" -> spliceJoin(builders, i, DefRight, a.alias, a.on)
                 [] a.type = "INNER" -> innerJoin(builders, i, DefRight, a.alias, a.on)
                 [] a.type = "LEFT" -> leftJoin(builders, i, DefRight, a.alias, a.on)
                 [] a.type = "CROSS" -> crossJoin(builders, i, DefRight, a.alias))

OrderByCall(P, max, A) ==
  \E i \in P, a \in A :
    Len(builders) < max /\ Derived("orderBy", i, orderBy(builders, i, a.column, a.direction))

LimitCall(P, max, A) ==
  \E i \in P, a \in A :
    Len(builders) < max /\ Derived("limit", i, limit(builders, i, a.count, a.offset))

GroupByCall(P, max, A) ==
  \E i \in P, cols \in A :
    Len(builders) < max /\ Derived("groupBy", i, groupBy(builders, i, cols))

\* new SelectBuilder(client, def, { from: { kind: "subquery", select: b._node, alias } })
SubqueryCall(P, max, A) ==
  \E i \in P, alias \in A :
    /\ Len(builders) < max
    /\ Derived("subquery", i,
               construct(builders, i,
                         [from |-> Obj(Len(builders) + 1,
                                       SubqueryFrom(builders[i].node, alias))],
                         Call("subquery", alias)))

Ran(op, i, s) ==
  /\ last' = [op |-> op, target |-> i, ok |-> s.ok, err |-> s.err, value |-> s.value]
  /\ transport' = s.sent
  /\ UNCHANGED <<builders, fmtIn, fmtOut, exprArgs, exprOut, writer, client>>

ExecuteCall(P) ==
  \E i \in P, reply \in Replies : Ran("execute", i, execute(builders[i], reply))

FirstCall(P) ==
  \E i \in P, reply \in Replies : Ran("first", i, first(builders, i, reply))

(***************************************************************************)
(* Arguments                                                               *)
(***************************************************************************)
SrcEq == Fn("left", src, "eq", Str(<<"x">>), Null)
KwGt == Fn("left", kw, "gt", Num(5), Null)
RightSrcEq == Fn("right", src, "eq", Str(<<"x">>), Null)
AvgKw == agg("avg", kw, <<"a">>)
Hour == <<"1", "h">>
NoFill == Undefined
OneFill(f) == [t |-> "one", f |-> f]
ManyFill(fs) == [t |-> "array", items |-> fs]
Sample(interval, fill, align) == [interval |-> interval, fill |-> fill, align |-> align]
Join(type, alias, on, tolerance) ==
  [type |-> type, alias |-> alias, on |-> on, tolerance |-> tolerance]
Order(column, direction) == [column |-> column, direction |-> direction]
Limit(count, offset) == [count |-> count, offset |-> offset]

FewColumns == {<<src>>}
FewExprs == {[expr |-> AvgKw, alias |-> Absent]}
Fns == {SrcEq, KwGt}
Intervals == {[column |-> ts, interval |-> <<"2", "0", "2", "6">>]}
FewSamples == {Sample(Hour, OneFill(FillKw("PREV")), <<"CALENDAR">>)}
AllSamples ==
  {Sample(Hour, f, a) :
     f \in {NoFill, OneFill(FillKw("PREV")), OneFill(FillKw("LINEAR")),
            ManyFill(<<FillKw("NULL"), FillKw("NONE"), FillConstant(Num(0))>>)},
     a \in {Absent, <<"CALENDAR">>, <<"FIRST OBSERVATION">>}}
Partitions == {<<src>>}
RightAlias == <<"m">>
FewJoins == {Join("ASOF", RightAlias, RightSrcEq, <<"1", "s">>), Join("CROSS", RightAlias, NoFn, Absent)}
SomeJoins ==
  {Join("ASOF", RightAlias, RightSrcEq, <<"1", "s">>),
   Join("LT", RightAlias, NoFn, Absent),
   Join("SPLICE", RightAlias, NoFn, Absent),
   Join("INNER", RightAlias, RightSrcEq, Absent),
   Join("LEFT", RightAlias, SrcEq, Absent),
   Join("CROSS", RightAlias, NoFn, Absent)}
FewOrders == {Order(ts, "DESC")}
FewLimits == {Limit(Num(10), Undefined)}
SomeLimits == {Limit(Num(10), Undefined), Limit(Num(10), Num(5))}
Groups == {<<src>>}
Aliases == {<<"q">>}

InitSelect ==
  /\ builders \in {Root(def) : def \in Defs}
  /\ last = NoCall
  /\ transport = <<>>
  /\ IdleFormat /\ IdleLogic /\ IdleWrite

\* A program that keeps every builder and derives from any of them.
NextTree ==
  \/ DistinctCall(AnyBuilder, MaxBuilders)
  \/ ColumnsCall(AnyBuilder, MaxBuilders, FewColumns)
  \/ AddExprCall(AnyBuilder, MaxBuilders, FewExprs)
  \/ WhereCall(AnyBuilder, MaxBuilders, {SrcEq})
  \/ AndWhereCall(AnyBuilder, MaxBuilders, {KwGt})
  \/ WhereTimestampCall(AnyBuilder, MaxBuilders, Intervals)
  \/ SampleByCall(AnyBuilder, MaxBuilders, FewSamples)
  \/ LatestOnCall(AnyBuilder, MaxBuilders, Partitions)
  \/ JoinCall(AnyBuilder, MaxBuilders, SomeJoins)
  \/ OrderByCall(AnyBuilder, MaxBuilders, FewOrders)
  \/ LimitCall(AnyBuilder, MaxBuilders, FewLimits)
  \/ GroupByCall(AnyBuilder, MaxBuilders, Groups)
  \/ SubqueryCall(AnyBuilder, MaxBuilders, Aliases)

SpecTree == InitSelect /\ [][NextTree]_vars

\* A program that chains calls, each on the builder the previous call returned.
NextChain ==
  \/ DistinctCall(Newest, MaxChain)
  \/ ColumnsCall(Newest, MaxChain, FewColumns)
  \/ AddExprCall(Newest, MaxChain, FewExprs)
  \/ WhereCall(Newest, MaxChain, Fns)
  \/ AndWhereCall(Newest, MaxChain, Fns)
  \/ WhereTimestampCall(Newest, MaxChain, Intervals)
  \/ SampleByCall(Newest, MaxChain, FewSamples)
  \/ LatestOnCall(Newest, MaxChain, Partitions)
  \/ JoinCall(Newest, MaxChain, FewJoins)
  \/ OrderByCall(Newest, MaxChain, FewOrders)
  \/ LimitCall(Newest, MaxChain, FewLimits)
  \/ GroupByCall(Newest, MaxChain, Groups)

SpecChain == InitSelect /\ [][NextChain]_vars

\* A program that chains calls and runs the newest builder.
NextExec ==
  \/ DistinctCall(Newest, MaxExecChain)
  \/ ColumnsCall(Newest, MaxExecChain, FewColumns)
  \/ AddExprCall(Newest, MaxExecChain, FewExprs)
  \/ WhereCall(Newest, MaxExecChain, {SrcEq})
  \/ SampleByCall(Newest, MaxExecChain, AllSamples)
  \/ LatestOnCall(Newest, MaxExecChain, Partitions)
  \/ OrderByCall(Newest, MaxExecChain, FewOrders)
  \/ LimitCall(Newest, MaxExecChain, SomeLimits)
  \/ ExecuteCall(Newest)
  \/ FirstCall(Newest)

SpecExec == InitSelect /\ [][NextExec]_vars

(***************************************************************************)
(* Reading a rendered text: its lines and the clause each line starts.     *)
(***************************************************************************)
RECURSIVE SplitLines(_, _)
SplitLines(text, cur) ==
  IF text = <<>> THEN <<cur>>
  ELSE IF Head(text) = "\n" THEN <<cur>> \o SplitLines(Tail(text), <<>>)
  ELSE SplitLines(Tail(text), Append(cur, Head(text)))

Lines(text) == SplitLines(text, <<>>)
Tags(text) == [j \in 1..Len(Lines(text)) |-> Head(Lines(text)[j])]
Range(f) == {f[x] : x \in DOMAIN f}

StartsWith(line, prefix) ==
  Len(line) >= Len(prefix) /\ SubSeq(line, 1, Len(prefix)) = prefix

JoinTypes == {"INNER", "LEFT", "CROSS", "ASOF", "LT", "SPLICE"}

ClauseRank(tag) ==
  CASE tag \in {"SELECT", "SELECT DISTINCT"} -> 1
    [] tag = "FROM" -> 2
    [] tag \in JoinTypes -> 3
    [] tag = "LATEST ON" -> 4
    [] tag = "WHERE" -> 5
    [] tag = "SAMPLE BY" -> 6
    [] tag = "FILL(" -> 7
    [] tag = "ALIGN TO" -> 8
    [] tag = "GROUP BY" -> 9
    [] tag = "ORDER BY" -> 10
    [] tag = "LIMIT" -> 11
    [] OTHER -> 0

\* The calls that led from the first builder to builder k, oldest first.
RECURSIVE CallsOf(_, _)
CallsOf(bs, k) ==
  IF bs[k].parent = 0 THEN <<>> ELSE Append(CallsOf(bs, bs[k].parent), bs[k].call)

Called(bs, k, names) == \E j \in 1..Len(CallsOf(bs, k)) : CallsOf(bs, k)[j].name \in names

RECURSIVE Keep(_, _)
Keep(s, S) ==
  IF s = <<>> THEN <<>>
  ELSE (IF Head(s) \in S THEN <<Head(s)>> ELSE <<>>) \o Keep(Tail(s), S)

RECURSIVE DropTagged(_, _)
DropTagged(lines, tags) ==
  IF lines = <<>> THEN <<>>
  ELSE (IF Head(Head(lines)) \in tags THEN <<>> ELSE <<Head(lines)>>)
       \o DropTagged(Tail(lines), tags)

NodeFields == {"kind", "distinct", "columns", "from", "joins", "where", "groupBy",
               "orderBy", "limit", "sampleBy", "latestOn"}
RefFields == NodeFields \ {"kind", "distinct"}

\* the field of the node, and the clause lines of the text, a chained call is about
Touched(name) ==
  CASE name = "distinct" -> {"distinct"}
    [] name \in {"columns", "addExpr"} -> {"columns"}
    [] name \in {"where", "andWhere", "whereTimestamp"} -> {"where"}
    [] name = "sampleBy" -> {"sampleBy"}
    [] name = "latestOn" -> {"latestOn"}
    [] name = "join" -> {"joins"}
    [] name = "orderBy" -> {"orderBy"}
    [] name = "limit" -> {"limit"}
    [] name = "groupBy" -> {"groupBy"}

TouchedTags(name) ==
  CASE name \in {"distinct", "columns", "addExpr"} -> {"SELECT", "SELECT DISTINCT"}
    [] name \in {"where", "andWhere", "whereTimestamp"} -> {"WHERE"}
    [] name = "sampleBy" -> {"SAMPLE BY", "FILL(", "ALIGN TO"}
    [] name = "latestOn" -> {"LATEST ON"}
    [] name = "join" -> JoinTypes
    [] name = "orderBy" -> {"ORDER BY"}
    [] name = "limit" -> {"LIMIT"}
    [] name = "groupBy" -> {"GROUP BY"}

IsChained(b) == b.parent # 0 /\ b.call.name # "subquery"
StarSample(node) == ~IsNull(node.sampleBy) /\ Len(node.columns.v) = 0

(***************************************************************************)
(* C1: every chained call returns a new builder and leaves the builder it  *)
(* was called on unchanged (same node, same toSQL() before and after); the *)
(* new builder differs from its parent only in the clause the call is      *)
(* about, so two children of one parent each reflect only their own        *)
(* change.                                                                 *)
(***************************************************************************)
C1_ChainedCallLeavesParent ==
  [][/\ Len(builders') >= Len(builders)
     /\ \A i \in 1..Len(builders) : builders'[i] = builders[i]
     /\ Len(builders') > Len(builders) =>
          LET c == builders'[Len(builders')]
              p == builders'[c.parent]
          IN IsChained(c) =>
               /\ Len(builders') = Len(builders) + 1
               /\ c.parent = last'.target
               /\ toSQL(p) = toSQL(builders[c.parent])
               /\ \A f \in NodeFields \ Touched(c.call.name) : c.node[f] = p.node[f]
               /\ toSQL(c).ok /\ toSQL(p).ok =>
                    DropTagged(Lines(toSQL(c).text), TouchedTags(c.call.name))
                    = DropTagged(Lines(toSQL(p).text), TouchedTags(c.call.name))]_vars

C1_Witness ==
  \E c1, c2 \in 1..Len(builders) :
    /\ builders[c1].parent = builders[c2].parent
    /\ builders[c1].call.name = "limit"
    /\ builders[c2].call.name = "orderBy"
    /\ "LIMIT" \in Range(Tags(toSQL(builders[c1]).text))
    /\ "ORDER BY" \notin Range(Tags(toSQL(builders[c1]).text))
    /\ "ORDER BY" \in Range(Tags(toSQL(builders[c2]).text))
    /\ "LIMIT" \notin Range(Tags(toSQL(builders[c2]).text))

(***************************************************************************)
(* C2: a builder derived by a chained call shares no array or clause       *)
(* object with the builder it was derived from.                            *)
(***************************************************************************)
SharedObjects(p, c) ==
  {f \in RefFields : c.node[f].oid # 0 /\ c.node[f].oid = p.node[f].oid}

C2_NoSharedObjects ==
  \A k \in 1..Len(builders) :
    IsChained(builders[k]) =>
      SharedObjects(builders[builders[k].parent], builders[k]) = {}

(***************************************************************************)
(* C3: the rendered SELECT has its clauses on separate lines in the fixed  *)
(* order SELECT, FROM, joins (in call order), LATEST ON, WHERE, SAMPLE BY, *)
(* FILL, ALIGN TO, GROUP BY, ORDER BY, LIMIT, each at most once, whatever  *)
(* the order of the builder calls; a clause is present exactly when a call *)
(* for it was made.                                                        *)
(***************************************************************************)
C3_ClauseOrder ==
  \A k \in 1..Len(builders) :
    LET sql == toSQL(builders[k])
        tags == Tags(sql.text)
        calls == CallsOf(builders, k)
        joinCalls == Keep([j \in 1..Len(calls) |->
                             IF calls[j].name = "join" THEN calls[j].arg ELSE "none"],
                          JoinTypes)
        has(tag) == tag \in Range(tags)
    IN sql.ok =>
         /\ Len(tags) >= 2
         /\ tags[1] = (IF Called(builders, k, {"distinct"}) THEN "SELECT DISTINCT" ELSE "SELECT")
         /\ tags[2] = "FROM"
         /\ \A j \in 1..Len(tags) : ClauseRank(tags[j]) > 0
         /\ \A j \in 1..(Len(tags) - 1) :
              \/ ClauseRank(tags[j]) < ClauseRank(tags[j + 1])
              \/ ClauseRank(tags[j]) = 3 /\ ClauseRank(tags[j + 1]) = 3
         /\ Keep(tags, JoinTypes) = joinCalls
         /\ has("LATEST ON") <=> Called(builders, k, {"latestOn"})
         /\ has("WHERE") <=> Called(builders, k, {"where", "andWhere", "whereTimestamp"})
         /\ has("SAMPLE BY") <=> Called(builders, k, {"sampleBy"})
         /\ has("GROUP BY") <=> Called(builders, k, {"groupBy"})
         /\ has("ORDER BY") <=> Called(builders, k, {"orderBy"})
         /\ has("LIMIT") <=> Called(builders, k, {"limit"})

\* WHERE was called before LATEST ON and before a join, and still comes after them
C3_Witness ==
  \E k \in 1..Len(builders) :
    LET calls == CallsOf(builders, k)
    IN /\ toSQL(builders[k]).ok
       /\ Len(calls) = 3
       /\ calls[1].name = "where"
       /\ calls[2].name = "latestOn"
       /\ calls[3].name = "join"

(***************************************************************************)
(* C4: a builder whose node has SAMPLE BY and an empty projection list     *)
(* fails in toSQL(), for every fill and align; execute() and first() on it *)
(* reject with that error and hand nothing to the transport.  With a       *)
(* non-empty projection, set before or after sampleBy, toSQL() succeeds.   *)
(***************************************************************************)
C4_StarSampleFails ==
  /\ \A k \in 1..Len(builders) :
       /\ StarSample(builders[k].node) => toSQL(builders[k]) = Throw(SampleByError)
       /\ ~IsNull(builders[k].node.sampleBy) /\ Len(builders[k].node.columns.v) > 0
            => /\ toSQL(builders[k]).ok
               /\ "SAMPLE BY" \in Range(Tags(toSQL(builders[k]).text))
  /\ last.op \in {"execute", "first"} /\ StarSample(builders[last.target].node)
       => ~last.ok /\ last.err = SampleByError /\ transport = <<>>
  /\ last.op \in {"execute", "first"} /\ ~StarSample(builders[last.target].node)
       => Len(transport) = 1

C4_Witness ==
  /\ last.op = "first"
  /\ ~last.ok
  /\ transport = <<>>
  /\ StarSample(builders[last.target].node)
  /\ Len(builders[last.target].node.sampleBy.v.fill) > 1
  /\ builders[last.target].node.sampleBy.v.align # Absent
  /\ Called(builders, last.target, {"where"})

C6_LatestOnNeedsDesignated ==
  /\ [][last'.op = "latestOn" =>
          LET designated == findDesignatedColumn(builders[last'.target].def.columns)
          IN /\ designated = Absent => ~last'.ok /\ builders' = builders
             /\ designated # Absent =>
                  /\ last'.ok
                  /\ Len(builders') = Len(builders) + 1
                  /\ builders'[Len(builders')].parent = last'.target
                  /\ builders'[Len(builders')].node.latestOn.v.timestamp = designated]_vars
  /\ [](\A k \in 1..Len(builders) :
          ~IsNull(builders[k].node.latestOn) =>
            /\ findDesignatedColumn(builders[k].def.columns) # Absent
            /\ builders[k].node.latestOn.v.timestamp
               = findDesignatedColumn(builders[k].def.columns)
            /\ toSQL(builders[k]).ok =>
                 \E j \in 1..Len(Lines(toSQL(builders[k]).text)) :
                   StartsWith(Lines(toSQL(builders[k]).text)[j],
                              <<"LATEST ON", " ">>
                              \o findDesignatedColumn(builders[k].def.columns)
                              \o <<" PARTITION BY ">>))

C6_Witness ==
  /\ last.op = "latestOn"
  /\ ~last.ok
  /\ Len(builders) > 1
  /\ findDesignatedColumn(builders[last.target].def.columns) = Absent
  /\ toSQL(builders[last.target]).ok

(***************************************************************************)
(* C7: after where(p0) and any number of andWhere(p1) .. andWhere(pn) the  *)
(* WHERE of the builder is the left-nested conjunction                     *)
(* (((p0 AND p1) AND p2) ... AND pn), every predicate once and in call     *)
(* order; andWhere on a builder without WHERE makes its predicate the      *)
(* WHERE.  (whereTimestamp conjoins its predicate in the same way.)        *)
(***************************************************************************)
RECURSIVE Conjuncts(_, _)
Conjuncts(bs, k) ==
  IF bs[k].parent = 0 THEN <<>>
  ELSE IF bs[k].call.name = "where" THEN <<bs[k].call.arg>>
  ELSE IF bs[k].call.name \in {"andWhere", "whereTimestamp"}
       THEN Append(Conjuncts(bs, bs[k].parent), bs[k].call.arg)
  ELSE Conjuncts(bs, bs[k].parent)

RECURSIVE LeftChain(_, _)
LeftChain(op, ps) ==
  IF Len(ps) = 1 THEN ps[1]
  ELSE [kind |-> "binary", op |-> op,
        left |-> LeftChain(op, SubSeq(ps, 1, Len(ps) - 1)), right |-> ps[Len(ps)]]

RECURSIVE LeftChainText(_, _)
LeftChainText(op, ps) ==
  IF Len(ps) = 1 THEN serializeExpr(ps[1]).text
  ELSE <<"(">> \o LeftChainText(op, SubSeq(ps, 1, Len(ps) - 1))
       \o <<" ", op, " ">> \o serializeExpr(ps[Len(ps)]).text \o <<")">>

C7_AndWhereConjoins ==
  \A k \in 1..Len(builders) :
    LET ps == Conjuncts(builders, k)
        sql == toSQL(builders[k])
    IN IF ps = <<>> THEN IsNull(builders[k].node.where)
       ELSE /\ builders[k].node.where.v = LeftChain("AND", ps)
            /\ sql.ok =>
                 \E j \in 1..Len(Lines(sql.text)) :
                   Lines(sql.text)[j] = <<"WHERE", " ">> \o LeftChainText("AND", ps)

C7_Witness ==
  \E k \in 1..Len(builders) :
    LET calls == CallsOf(builders, k)
    IN /\ Len(calls) = 3
       /\ calls[1].name = "where"
       /\ calls[2].name = "andWhere"
       /\ calls[3].name = "andWhere"
       /\ calls[1].arg # calls[2].arg
       /\ builders[k].node.where.v.left.left = calls[1].arg

(***************************************************************************)
(* C8: and(...) and or(...) fail with no argument, return the single       *)
(* argument unchanged, and for e1 .. en (n >= 2) return the left-nested    *)
(* chain that renders as (((e1 OP e2) OP e3) ... OP en).                   *)
(***************************************************************************)
C8_Combinators ==
  exprOut.op # "none" =>
    /\ Len(exprArgs) = 0 => ~exprOut.r.ok
    /\ Len(exprArgs) = 1 => exprOut.r.ok /\ exprOut.r.expr = exprArgs[1]
    /\ Len(exprArgs) >= 2 =>
         /\ exprOut.r.ok
         /\ exprOut.r.expr = LeftChain(exprOut.op, exprArgs)
         /\ serializeExpr(exprOut.r.expr) = Ok(LeftChainText(exprOut.op, exprArgs))
         /\ Head(serializeExpr(exprOut.r.expr).text) = "("
         /\ serializeExpr(exprOut.r.expr).text[Len(serializeExpr(exprOut.r.expr).text)] = ")"

C8_Witness ==
  /\ exprOut.op = "OR"
  /\ Len(exprArgs) = 3
  /\ exprArgs[1] # exprArgs[2]
  /\ exprArgs[2] # exprArgs[3]
  /\ exprOut.r.expr.left.left = exprArgs[1]

(***************************************************************************)
(* C9: for a non-null value formatValue fails or returns text in which     *)
(* caller-supplied characters occur only inside one single-quoted literal  *)
(* with every inner quote doubled: the text is such a literal, or it holds *)
(* no quote and no statement separator at all.                             *)
(***************************************************************************)
RECURSIVE QuotesDoubled(_)
QuotesDoubled(s) ==
  IF s = <<>> THEN TRUE
  ELSE IF Head(s) = "'"
       THEN Len(s) >= 2 /\ s[2] = "'" /\ QuotesDoubled(Tail(Tail(s)))
       ELSE QuotesDoubled(Tail(s))

IsQuotedLiteral(text) ==
  /\ Len(text) >= 2
  /\ text[1] = "'"
  /\ text[Len(text)] = "'"
  /\ QuotesDoubled(SubSeq(text, 2, Len(text) - 1))

C9_OnlyQuotedLiterals ==
  fmtOut.op = "formatValue" /\ ~IsNullish(fmtIn.value) /\ fmtOut.r.ok =>
    \/ IsQuotedLiteral(fmtOut.r.text)
    \/ \A j \in 1..Len(fmtOut.r.text) : fmtOut.r.text[j] \notin {"'", ";"}

(***************************************************************************)
(* C10: for null and undefined formatValue returns NULL and does not       *)
(* throw, whatever the type; a null cell of an INSERT row and a null       *)
(* assignment of an UPDATE render as NULL whatever the column's type.      *)
(***************************************************************************)
C10_NullIsNULL ==
  /\ fmtOut.op = "formatValue" /\ IsNullish(fmtIn.value) => fmtOut.r = Ok(<<"NULL">>)
  /\ fmtOut.op = "insert" /\ IsNullish(fmtIn.value) =>
       /\ fmtOut.r.ok
       /\ Len(Lines(fmtOut.r.text)) = 5
       /\ Lines(fmtOut.r.text)[2] = <<"(", "t", "s", ", ", "c", ")">>
       /\ Lines(fmtOut.r.text)[4] = <<"(", "now()", ", ", "NULL", ")", ",">>
       /\ Lines(fmtOut.r.text)[5] = <<"(", "now()", ", ", "NULL", ")">>
  /\ fmtOut.op = "update" /\ fmtIn.value = Null =>
       /\ fmtOut.r.ok
       /\ Lines(fmtOut.r.text)[2] = <<"SET", " ", "c", " = ", "NULL">>

C10_Witness ==
  /\ fmtOut.op = "insert"
  /\ fmtIn.value = Null
  /\ fmtIn.type = "binary"
  /\ fmtOut.r.ok

(***************************************************************************)
(* schema/define.ts, ddl/alter.ts, ddl/create.ts.  The operations array of *)
(* an AlterBuilder is an object with an identity, so that the array toSQL  *)
(* returns can be told from the builder's own.  While execute() runs, sent *)
(* counts the statements handed to client.exec and inflight the exec calls *)
(* that have not completed.                                                *)
(***************************************************************************)
MaxOps == 2

Opt(r, f, default) == IF f \in DOMAIN r THEN r[f] ELSE default

\* schema/columns.ts: a field of a Zod object schema is [name, type, meta], type
\* the base Zod kind under the optional/nullable wrappers and meta the merged
\* .meta() annotations (designated, symbol, int, float).
ZodField(name, type, meta) == [name |-> name, type |-> type, meta |-> meta]

SupportedZodTypes == {"boolean", "number", "string", "date", "bigint"}

zodFieldToQColumn(field) ==
  CASE field.type = "boolean" -> Column(field.name, "boolean", FALSE)
    [] field.type = "number" ->
         IF Opt(field.meta, "int", FALSE) THEN Column(field.name, "int", FALSE)
         ELSE IF Opt(field.meta, "float", FALSE) THEN Column(field.name, "float", FALSE)
         ELSE Column(field.name, "double", FALSE)
    [] field.type = "string" ->
         IF Opt(field.meta, "symbol", FALSE) THEN Column(field.name, "symbol", FALSE)
         ELSE Column(field.name, "varchar", FALSE)
    [] field.type = "date" ->
         Column(field.name, "timestamp", Opt(field.meta, "designated", FALSE))
    [] field.type = "bigint" -> Column(field.name, "long", FALSE)

\* the default branch of zodFieldToQColumn throws
zodThrows(schema) == \E i \in 1..Len(schema) : schema[i].type \notin SupportedZodTypes

zodToColumns(schema) == [i \in 1..Len(schema) |-> zodFieldToQColumn(schema[i])]

\* "schema" in config && config.schema ? zodToColumns(config.schema) : config.columns
columnsOf(config) ==
  IF "schema" \in DOMAIN config THEN zodToColumns(config.schema) ELSE config.columns

defineTable(config) ==
  [name |-> config.name,
   columns |-> columnsOf(config),
   partitionBy |-> Opt(config, "partitionBy", "DAY"),
   wal |-> Opt(config, "wal", TRUE),
   dedupKeys |-> Opt(config, "dedupKeys", <<>>),
   ttl |-> Opt(config, "ttl", Undefined),
   maxUncommittedRows |-> Opt(config, "maxUncommittedRows", Undefined),
   o3MaxLag |-> Opt(config, "o3MaxLag", Undefined)]

mapQDBType(col) ==
  CASE col.qdbType = "symbol" ->
         <<"SYMBOL">>
         \o (IF Opt(col.meta, "symbolCapacity", Undefined) # Undefined
             THEN <<" CAPACITY ">> \o NumStr(col.meta.symbolCapacity.n) ELSE <<>>)
         \o (IF Opt(col.meta, "symbolCache", Undefined) = Bool(TRUE) THEN <<" CACHE">> ELSE <<>>)
         \o (IF Opt(col.meta, "symbolCache", Undefined) = Bool(FALSE)
             THEN <<" NOCACHE">> ELSE <<>>)
         \o (IF Truthy(Opt(col.meta, "symbolIndex", Undefined))
             THEN <<" INDEX">>
                  \o (IF Opt(col.meta, "symbolIndexCapacity", Undefined) # Undefined
                      THEN <<" CAPACITY ">> \o NumStr(col.meta.symbolIndexCapacity.n)
                      ELSE <<>>)
             ELSE <<>>)
    [] col.qdbType = "geohash" ->
         <<"GEOHASH(">>
         \o (IF IsNullish(Opt(col.meta, "geohashBits", Undefined)) THEN NumStr(20)
             ELSE NumStr(col.meta.geohashBits.n))
         \o <<"b)">>
    [] col.qdbType = "array" ->
         <<UpperCase(IF IsNullish(Opt(col.meta, "arrayType", Undefined)) THEN "double"
                     ELSE col.meta.arrayType.s), "[]">>
    [] col.qdbType = "timestamp_ns" -> <<"TIMESTAMP">>
    [] OTHER -> <<UpperCase(col.qdbType)>>

AlterBuilder(def) ==
  [kind |-> "alter", def |-> def, operations |-> Obj(1, <<>>),
   running |-> FALSE, sent |-> 0, inflight |-> 0]

\* the statement a method of AlterBuilder pushes
operation(def, call) ==
  <<"ALTER TABLE", " ">> \o escapeIdentifier(def.name) \o
  CASE call.m = "addColumn" ->
         <<" ", "ADD COLUMN", " ">> \o escapeIdentifier(call.a.s) \o <<" ">> \o mapQDBType(call.b)
    [] call.m = "dropColumn" -> <<" ", "DROP COLUMN", " ">> \o escapeIdentifier(call.a.s)
    [] call.m = "renameColumn" ->
         <<" ", "RENAME COLUMN", " ">> \o escapeIdentifier(call.a.s)
         \o <<" ", "TO", " ">> \o escapeIdentifier(call.b.s)
    [] call.m = "setTTL" -> <<" ", "SET PARAM", " ", "ttl = ", "'">> \o call.a.s \o <<"'">>
    [] call.m = "setMaxUncommittedRows" ->
         <<" ", "SET PARAM", " ", "maxUncommittedRows = ">> \o ToStr(call.a)
    [] call.m = "setO3MaxLag" ->
         <<" ", "SET PARAM", " ", "o3MaxLag = ", "'">> \o call.a.s \o <<"'">>
    [] call.m = "dropPartition" ->
         <<" ", "DROP PARTITION LIST", " ", "'">> \o call.a.s \o <<"'">>
    [] call.m = "detachPartition" ->
         <<" ", "DETACH PARTITION LIST", " ", "'">> \o call.a.s \o <<"'">>
    [] call.m = "attachPartition" ->
         <<" ", "ATTACH PARTITION LIST", " ", "'">> \o call.a.s \o <<"'">>
    [] call.m = "squashPartitions" -> <<" ", "SQUASH PARTITIONS">>
    [] call.m = "resumeWal" -> <<" ", "RESUME WAL">>

push(w, call) == [w EXCEPT !.operations.v = Append(@, operation(w.def, call))]

\* variant: toSQL that returns the builder's own array
AlterBuilder_toSQLOwnArray(w) == w.operations

\* return [...this.operations]
AlterBuilder_toSQL(w) == Obj(2, w.operations.v)

\* the next turn of `for (const sql of this.operations) await this.client.exec(sql)`
SendNext(w) ==
  IF w.sent < Len(w.operations.v)
  THEN [w EXCEPT !.sent = @ + 1, !.inflight = @ + 1]
  ELSE w

\* variant: every statement handed to client.exec before any has completed
AlterBuilder_executeAllAtOnce(w) ==
  [w EXCEPT !.running = Len(w.operations.v) > 0, !.sent = Len(w.operations.v),
            !.inflight = Len(w.operations.v)]

\* execute() up to its first await
AlterBuilder_execute(w) ==
  SendNext([w EXCEPT !.running = Len(w.operations.v) > 0, !.sent = 0, !.inflight = 0])

\* an exec call of the running execute() resolves
resumed(w) ==
  IF SendNext([w EXCEPT !.inflight = @ - 1]).inflight > 0
  THEN SendNext([w EXCEPT !.inflight = @ - 1])
  ELSE [w EXCEPT !.inflight = 0, !.running = FALSE]

\* variant: a rejected exec call is skipped and the loop goes on
abortedSkips(w) ==
  IF SendNext([w EXCEPT !.inflight = @ - 1]).inflight > 0
  THEN SendNext([w EXCEPT !.inflight = @ - 1])
  ELSE [w EXCEPT !.inflight = 0, !.running = FALSE]

\* an exec call of the running execute() rejects
aborted(w) == [w EXCEPT !.inflight = @ - 1, !.running = FALSE]

CreateBuilder(def) == [kind |-> "create", def |-> def, ifNotExistsFlag |-> FALSE]

ifNotExists(w) == [w EXCEPT !.ifNotExistsFlag = TRUE]

CreateBuilder_toSQL(w) ==
  <<"CREATE TABLE">>
  \o (IF w.ifNotExistsFlag THEN <<" IF NOT EXISTS">> ELSE <<>>)
  \o <<" ">> \o escapeIdentifier(w.def.name) \o <<" (", "\n">>
  \o JoinT([i \in 1..Len(w.def.columns) |->
              <<"  ">> \o escapeIdentifier(w.def.columns[i].name) \o <<" ">>
              \o mapQDBType(w.def.columns[i])], <<",", "\n">>)
  \o <<"\n", ")">>
  \o (IF findDesignatedColumn(w.def.columns) # Absent
      THEN <<" timestamp(">> \o escapeIdentifier(findDesignatedColumn(w.def.columns)) \o <<")">>
      ELSE <<>>)
  \o <<" PARTITION BY ", w.def.partitionBy>>
  \o (IF w.def.wal THEN <<" WAL">> ELSE <<" BYPASS WAL">>)
  \o (IF Len(w.def.dedupKeys) > 0
      THEN <<" DEDUP UPSERT KEYS(">>
           \o JoinT([i \in 1..Len(w.def.dedupKeys) |-> escapeIdentifier(w.def.dedupKeys[i])],
                    <<", ">>)
           \o <<")">>
      ELSE <<>>)
  \o (IF w.def.maxUncommittedRows # Undefined \/ w.def.o3MaxLag # Undefined
      THEN <<"\n", "WITH ">>
           \o JoinT((IF w.def.maxUncommittedRows # Undefined
                     THEN <<<<"maxUncommittedRows=">> \o ToStr(w.def.maxUncommittedRows)>>
                     ELSE <<>>)
                    \o (IF w.def.o3MaxLag # Undefined
                        THEN <<<<"o3MaxLag=">> \o w.def.o3MaxLag.s>> ELSE <<>>),
                    <<", ">>)
      ELSE <<>>)

\* the ALTER TABLE ... SET PARAM ttl statement execute() sends after the CREATE
TtlStatement(def) ==
  <<"ALTER TABLE", " ">> \o escapeIdentifier(def.name)
  \o <<" ", "SET PARAM", " ", "ttl = ", "'">> \o def.ttl.s \o <<"'">>

CreateBuilder_execute(w, reply, reply2) ==
  IF ~reply.ok THEN Settled(FALSE, Null, reply.err, <<CreateBuilder_toSQL(w)>>)
  ELSE IF ~Truthy(w.def.ttl) THEN Settled(TRUE, Undefined, "", <<CreateBuilder_toSQL(w)>>)
  ELSE Settled(reply2.ok, IF reply2.ok THEN Undefined ELSE Null, reply2.err,
               <<CreateBuilder_toSQL(w), TtlStatement(w.def)>>)

(***************************************************************************)
(* query/insert.ts, query/update.ts: the builders that mutate in place.    *)
(* writer is the one builder in use: [kind, def, ...its fields].  A call   *)
(* that returns `this` is an operator from the builder to the builder      *)
(* after the call; toSQLOf and the execute operators return what the call  *)
(* left of the builder together with how it settled.                       *)
(***************************************************************************)
MaxRows == 2
MaxSets == 2

Field(name, value) == [name |-> name, value |-> value]

InsertBuilder(def) == [kind |-> "insert", def |-> def, rows |-> <<>>]
UpdateBuilder(def) == [kind |-> "update", def |-> def, node |-> UpdateNode(def)]

\* variant: a row added in front of the accumulated rows
valuesUnshift(w, row) == [w EXCEPT !.rows = <<row>> \o @]

values(w, row) == [w EXCEPT !.rows = Append(@, row)]
valuesMany(w, rows) == [w EXCEPT !.rows = @ \o rows]

\* variant: an assignment to a column replaces the earlier assignments to it
setLatestWins(w, vals) ==
  LET named == {vals[j].name : j \in {j \in 1..Len(vals) : vals[j].value # Undefined}}
      kept == SelectSeq2(w.node.set, {a \in Range(w.node.set) : a.column \notin named})
  IN [w EXCEPT !.node = UpdateBuilder_set(w.def, [@ EXCEPT !.set = kept], vals)]

set(w, vals) == [w EXCEPT !.node = UpdateBuilder_set(w.def, @, vals)]
from(w, table, alias) == [w EXCEPT !.node.from = Table(table.name, alias)]
UpdateBuilder_where(w, fn) ==
  [w EXCEPT !.node.where = CallFn(fn, buildColumnExprs(w.def, Absent),
                                  buildColumnExprs(w.def, Absent))]

\* A call on the writer: the builder it leaves, and its result or error.
After(w, r) == [w |-> w, r |-> r]

Rendered(w) ==
  CASE w.kind = "insert" -> InsertBuilder_toSQL(w.def, w.rows)
    [] w.kind = "update" -> serializeUpdate(w.node)
    [] w.kind = "create" -> Ok(CreateBuilder_toSQL(w))
    [] w.kind = "alter" -> [ok |-> TRUE, text |-> AlterBuilder_toSQL(w), err |-> ""]

\* variant: toSQL that hands the accumulated rows over and starts afresh
toSQLFlushes(w) ==
  After(IF w.kind = "insert" THEN [w EXCEPT !.rows = <<>>] ELSE w, Rendered(w))

toSQLOf(w) == After(w, Rendered(w))

\* const sql = this.toSQL(); const response = await this._client.exec(sql)
Awaited(sql, reply) ==
  IF ~sql.ok THEN Settled(FALSE, Null, sql.err, <<>>)
  ELSE IF ~reply.ok THEN Settled(FALSE, Null, reply.err, <<sql.text>>)
  ELSE Settled(TRUE, reply.body, "", <<sql.text>>)

Count(n) == [count |-> n]
Updated(body) == [updated |-> IF "updated" \in DOMAIN body THEN body.updated ELSE 0]

Valued(s, value) == IF s.ok THEN [s EXCEPT !.value = value] ELSE s

\* variant: execute that sends first and renders afterwards
InsertBuilder_executeSendsFirst(w, reply) ==
  IF Len(w.rows) = 0 THEN Settled(TRUE, Count(0), "", <<>>)
  ELSE IF ~reply.ok THEN Settled(FALSE, Null, reply.err, <<toSQLOf(w).r.text>>)
  ELSE Valued(Settled(toSQLOf(w).r.ok, Null, toSQLOf(w).r.err, <<toSQLOf(w).r.text>>),
              Count(Len(w.rows)))

InsertBuilder_execute(w, reply) ==
  IF Len(w.rows) = 0 THEN Settled(TRUE, Count(0), "", <<>>)
  ELSE Valued(Awaited(toSQLOf(w).r, reply), Count(Len(w.rows)))

UpdateBuilder_execute(w, reply) ==
  Valued(Awaited(toSQLOf(w).r, reply), Updated(reply.body))

(***************************************************************************)
(* Calls on the writer                                                     *)
(***************************************************************************)
blob == <<"b">>
arr == <<"a">>
DefWrite ==
  [name |-> <<"w">>,
   columns |-> <<Column(ts, "timestamp", TRUE), Column(src, "symbol", FALSE),
                 Column(blob, "binary", FALSE), Column(arr, "array", FALSE)>>]

SomeDate ==
  DateV(<<"2", "0", "2", "6", "-", "0", "1", "-", "1", "5", "T", "1", "0", ":", "3", "0",
          ":", "0", "0", ".", "0", "0", "0", "Z">>)
SomeBytes == Bytes(<<Num(1), Num(2)>>)

Rows ==
  {<<Field(src, Str(<<"x">>))>>,
   <<Field(ts, SomeDate), Field(src, Str(<<"y">>))>>,
   <<Field(ts, Undefined), Field(src, Null)>>,
   <<Field(src, Str(<<"'">>)), Field(blob, SomeBytes)>>,
   <<Field(blob, Null)>>,
   <<Field(<<"z">>, Str(<<"q">>)), Field(arr, Arr(<<Num(1), Num(2)>>))>>}

Assignments ==
  {<<Field(src, Str(<<"x">>))>>,
   <<Field(src, Null), Field(blob, Undefined)>>,
   <<Field(blob, SomeBytes)>>,
   <<Field(arr, Str(<<"x">>))>>}

WriteReplies ==
  {Reject("QuestDBError"),
   Resolve([ddl |-> "OK"]),
   Resolve([updated |-> 3])}

CallResult(op, ok, err, value) ==
  [op |-> op, target |-> 0, ok |-> ok, err |-> err, value |-> value]

WriterStep(w, l, sent) ==
  /\ writer' = w
  /\ last' = l
  /\ transport' = sent
  /\ UNCHANGED <<fmtIn, fmtOut, exprArgs, exprOut, builders, client>>

ValuesCall ==
  \E row \in Rows :
    /\ writer.kind = "insert"
    /\ Len(writer.rows) < MaxRows
    /\ WriterStep(values(writer, row), CallResult("values", TRUE, "", Null), <<>>)

ValuesManyCall ==
  \E rows \in SeqsUpTo(Rows, 2) :
    /\ writer.kind = "insert"
    /\ Len(writer.rows) + Len(rows) <= MaxRows
    /\ WriterStep(valuesMany(writer, rows), CallResult("valuesMany", TRUE, "", Null), <<>>)

SetCall ==
  \E vals \in Assignments :
    /\ writer.kind = "update"
    /\ Len(writer.node.set) < MaxSets
    /\ WriterStep(set(writer, vals), CallResult("set", TRUE, "", Null), <<>>)

FromCall ==
  /\ writer.kind = "update"
  /\ writer.node.from = Undefined
  /\ WriterStep(from(writer, DefRight, RightAlias), CallResult("from", TRUE, "", Null), <<>>)

UpdateWhereCall ==
  /\ writer.kind = "update"
  /\ writer.node.where = Null
  /\ WriterStep(UpdateBuilder_where(writer, SrcEq), CallResult("where", TRUE, "", Null), <<>>)

\* what toSQL() returned or threw
SqlText(text) == [t |-> "sql", text |-> text]
Read(r) == Settled(r.ok, IF r.ok THEN SqlText(r.text) ELSE Null, r.err, <<>>)

ToSQLDone(a) ==
  WriterStep(a.w, CallResult("toSQL", a.r.ok, a.r.err, Read(a.r).value), <<>>)

ToSQLCall ==
  /\ writer.kind \in {"insert", "update", "create", "alter"}
  /\ writer.kind = "alter" => ~writer.running
  /\ ToSQLDone(toSQLOf(writer))

ExecuteDone(s) == WriterStep(writer, CallResult("execute", s.ok, s.err, s.value), s.sent)

InsertExecuteCall ==
  \E reply \in WriteReplies :
    /\ writer.kind = "insert"
    /\ ExecuteDone(InsertBuilder_execute(writer, reply))

UpdateExecuteCall ==
  \E reply \in WriteReplies :
    /\ writer.kind = "update"
    /\ ExecuteDone(UpdateBuilder_execute(writer, reply))

AlterCalls ==
  {[m |-> "addColumn", a |-> Str(<<"n">>),
    b |-> [name |-> <<"n">>, qdbType |-> "symbol",
           meta |-> [designated |-> FALSE, symbolCapacity |-> Num(256),
                     symbolCache |-> Bool(FALSE), symbolIndex |-> Bool(TRUE)]]],
   [m |-> "addColumn", a |-> Str(<<"n", " ">>), b |-> Column(<<"n", " ">>, "timestamp_ns", FALSE)],
   [m |-> "dropColumn", a |-> Str(src), b |-> Undefined],
   [m |-> "renameColumn", a |-> Str(src), b |-> Str(<<"s">>)],
   [m |-> "setTTL", a |-> Str(<<"1", "w">>), b |-> Undefined],
   [m |-> "setMaxUncommittedRows", a |-> Num(5), b |-> Undefined],
   [m |-> "setO3MaxLag", a |-> Str(<<"1", "s">>), b |-> Undefined],
   [m |-> "dropPartition", a |-> Str(<<"'">>), b |-> Undefined],
   [m |-> "detachPartition", a |-> Str(<<"p">>), b |-> Undefined],
   [m |-> "attachPartition", a |-> Str(<<"p">>), b |-> Undefined],
   [m |-> "squashPartitions", a |-> Undefined, b |-> Undefined],
   [m |-> "resumeWal", a |-> Undefined, b |-> Undefined]}

CreateDefs ==
  {defineTable([name |-> <<"w">>, columns |-> DefWrite.columns]),
   defineTable([name |-> <<"w", " ">>,
                columns |-> <<Column(src, "symbol", FALSE),
                              [name |-> <<"g">>, qdbType |-> "geohash",
                               meta |-> [designated |-> FALSE, geohashBits |-> Num(30)]],
                              Column(<<"a">>, "array", FALSE)>>,
                partitionBy |-> "NONE", wal |-> FALSE, dedupKeys |-> <<src>>,
                ttl |-> Str(<<"1", "w">>), maxUncommittedRows |-> Num(5),
                o3MaxLag |-> Str(<<"1", "s">>)])}

\* a method of AlterBuilder that pushes a statement; execute() may be awaiting
AlterCall ==
  \E call \in AlterCalls :
    /\ writer.kind = "alter"
    /\ Len(writer.operations.v) < MaxOps
    /\ writer' = push(writer, call)
    /\ last' = IF writer.running THEN last ELSE CallResult(call.m, TRUE, "", Null)
    /\ transport' = IF writer.running THEN transport ELSE <<>>
    /\ UNCHANGED <<fmtIn, fmtOut, exprArgs, exprOut, builders, client>>

\* the caller pushes a text onto the array toSQL() returned
PushOntoReturned ==
  /\ writer.kind = "alter"
  /\ ~writer.running
  /\ last.op = "toSQL" /\ last.target = 0
  /\ Len(last.value.text.v) < MaxOps
  /\ WriterStep(IF last.value.text.oid = writer.operations.oid
                THEN [writer EXCEPT !.operations.v = Append(@, <<"x">>)]
                ELSE writer,
                CallResult("push", TRUE, "",
                           SqlText(Obj(last.value.text.oid, Append(last.value.text.v, <<"x">>)))),
                <<>>)

Texts(w) == SubSeq(w.operations.v, 1, w.sent)

AlterExecuteCall ==
  /\ writer.kind = "alter"
  /\ ~writer.running
  /\ WriterStep(AlterBuilder_execute(writer),
                IF AlterBuilder_execute(writer).running
                THEN CallResult("executing", TRUE, "", Null)
                ELSE CallResult("execute", TRUE, "", Undefined),
                Texts(AlterBuilder_execute(writer)))

AlterExecResolves ==
  /\ writer.kind = "alter"
  /\ writer.running
  /\ writer.inflight > 0
  /\ WriterStep(resumed(writer),
                IF resumed(writer).running THEN last
                ELSE CallResult("execute", TRUE, "", Undefined),
                Texts(resumed(writer)))

AlterExecRejects ==
  /\ writer.kind = "alter"
  /\ writer.running
  /\ writer.inflight > 0
  /\ WriterStep(aborted(writer), CallResult("execute", FALSE, "QuestDBError", Null), transport)

IfNotExistsCall ==
  /\ writer.kind = "create"
  /\ WriterStep(ifNotExists(writer), CallResult("ifNotExists", TRUE, "", Null), <<>>)

CreateExecuteCall ==
  \E reply \in WriteReplies, reply2 \in WriteReplies :
    /\ writer.kind = "create"
    /\ ExecuteDone(CreateBuilder_execute(writer, reply, reply2))

SelectToSQLCall(P) == \E i \in P : Ran("toSQL", i, Read(toSQL(builders[i])))

\* the program works with SelectBuilders
Selecting == writer = NoWriter

InitWrite ==
  /\ writer \in {NoWriter, InsertBuilder(DefWrite), UpdateBuilder(DefWrite),
                 AlterBuilder(DefWrite)}
                  \cup {CreateBuilder(def) : def \in CreateDefs}
  /\ client = NoExec
  /\ IdleFormat /\ IdleLogic /\ IdleSelect

NextWrite ==
  \/ ValuesCall
  \/ ValuesManyCall
  \/ SetCall
  \/ FromCall
  \/ UpdateWhereCall
  \/ ToSQLCall
  \/ InsertExecuteCall
  \/ UpdateExecuteCall
  \/ AlterCall
  \/ PushOntoReturned
  \/ AlterExecuteCall
  \/ AlterExecResolves
  \/ AlterExecRejects
  \/ IfNotExistsCall
  \/ CreateExecuteCall
  \/ (Selecting /\ ColumnsCall(Newest, MaxExecChain, FewColumns))
  \/ (Selecting /\ WhereCall(Newest, MaxExecChain, {SrcEq}))
  \/ (Selecting /\ SampleByCall(Newest, MaxExecChain, FewSamples))
  \/ (Selecting /\ SelectToSQLCall(Newest))
  \/ (Selecting /\ ExecuteCall(Newest))
  \/ (Selecting /\ FirstCall(Newest))

SpecWrite == InitWrite /\ [][NextWrite]_vars

(***************************************************************************)
(* client/connection.ts: QuestDBClient.exec.  client is the exec call in   *)
(* progress: the SQL, the configured retries, the retries left, the        *)
(* requests handed to fetch, what fetch answered to each, the sleeps       *)
(* taken, and how the call settled.  The body of a response is its text    *)
(* together with what JSON.parse makes of it.                              *)
(***************************************************************************)
MaxRetries == 2

Body(text, valid, parsed) == [text |-> text, valid |-> valid, parsed |-> parsed]
Response(status, body) == [kind |-> "response", status |-> status, body |-> body, name |-> ""]
Thrown(name) == [kind |-> "error", status |-> 0, body |-> Body(<<>>, FALSE, <<>>), name |-> name]

\* response.ok
ResponseOk(response) == response.status >= 200 /\ response.status <= 299

\* (parsed["error"] as string) ?? text
questdbMessage(body) ==
  IF body.valid /\ ~IsNullish(Opt(body.parsed, "error", Undefined))
  THEN body.parsed.error.s
  ELSE body.text

QuestDBError(response, sql) ==
  [type |-> "QuestDBError",
   status |-> response.status,
   message |-> <<"QuestDB error (">> \o NumStr(response.status) \o <<"): ">>
               \o questdbMessage(response.body),
   questdbMessage |-> questdbMessage(response.body),
   position |-> IF response.body.valid THEN Opt(response.body.parsed, "position", Undefined)
                ELSE Undefined,
   sql |-> sql]

QuestDBConnectionError(name) ==
  [type |-> "QuestDBConnectionError", status |-> 0,
   message |-> <<"Failed to connect to QuestDB at ", "baseUrl", ": ", name>>,
   questdbMessage |-> <<>>, position |-> Undefined, sql |-> <<>>]

\* execWithRetry up to the await of fetch
execWithRetry(c, sql, retriesLeft) ==
  [c EXCEPT !.status = "fetching", !.sql = sql, !.retriesLeft = retriesLeft,
            !.requests = Append(@, sql)]

exec(sql, retries) ==
  execWithRetry([status |-> "idle", sql |-> sql, retries |-> retries, retriesLeft |-> retries,
                 requests |-> <<>>, answers |-> <<>>, slept |-> <<>>, result |-> Null],
                sql, retries)

\* variant: a status of exactly 400 is taken for a server error
IsClientErrorAbove400(status) == status > 400 /\ status < 500

\* error.status >= 400 && error.status < 500
IsClientError(status) == status >= 400 /\ status < 500

rejects(c, error) == [c EXCEPT !.status = "rejected", !.result = error]

\* variant: the same delay before every retry
sleepsFlat(c) == [c EXCEPT !.status = "sleeping", !.slept = Append(@, 100)]

\* await sleep(100 * (this.retries - retriesLeft + 1))
sleeps(c) ==
  [c EXCEPT !.status = "sleeping", !.slept = Append(@, 100 * (c.retries - c.retriesLeft + 1))]

\* the catch block
caught(c, isQuestDBError, error) ==
  IF isQuestDBError /\ IsClientError(error.status) THEN rejects(c, error)
  ELSE IF c.retriesLeft > 0 THEN sleeps(c)
  ELSE rejects(c, error)

\* fetch settles: the try block from the await on
settles(c, answer) ==
  IF answer.kind = "response" /\ ~ResponseOk(answer)
  THEN caught(c, TRUE, QuestDBError(answer, c.sql))
  ELSE IF answer.kind = "response" /\ answer.body.valid
  THEN [c EXCEPT !.status = "resolved", !.result = answer.body.parsed]
  ELSE caught(c, FALSE,
              QuestDBConnectionError(IF answer.kind = "error" THEN answer.name
                                     ELSE "SyntaxError"))

\* variant: the retry started with the retries left it had
wakesUndiminished(c) == execWithRetry(c, c.sql, c.retriesLeft)

\* return this.execWithRetry(sql, retriesLeft - 1)
wakes(c) == execWithRetry(c, c.sql, c.retriesLeft - 1)

Statements == {<<"S", "1">>, <<"S", "2">>}

ErrorBody ==
  Body(<<"{error,position}">>, TRUE, [error |-> Str(<<"b", "a", "d">>), position |-> Num(7)])
Answers ==
  {Response(200, Body(<<"{ddl}">>, TRUE, [ddl |-> Str(<<"O", "K">>)])),
   Response(200, Body(<<"<html>">>, FALSE, <<>>)),
   Response(400, ErrorBody),
   Response(404, Body(<<"n", "o">>, FALSE, <<>>)),
   Response(499, Body(<<"{}">>, TRUE, [query |-> Str(<<"q">>)])),
   Response(500, ErrorBody),
   Response(503, Body(<<"d", "o", "w", "n">>, FALSE, <<>>)),
   Response(304, Body(<<>>, FALSE, <<>>)),
   Thrown("TypeError"),
   Thrown("AbortError")}

ClientStep(c) ==
  /\ client' = c
  /\ UNCHANGED <<fmtIn, fmtOut, exprArgs, exprOut, builders, last, transport, writer>>

ExecCall ==
  \E sql \in Statements, retries \in 0..MaxRetries :
    /\ client.status = "idle"
    /\ ClientStep(exec(sql, retries))

FetchSettles ==
  \E answer \in Answers :
    /\ client.status = "fetching"
    /\ ClientStep(settles([client EXCEPT !.answers = Append(@, answer)], answer))

SleepEnds ==
  /\ client.status = "sleeping"
  /\ ClientStep(wakes(client))

InitClient ==
  /\ client = NoExec
  /\ writer = NoWriter
  /\ IdleFormat /\ IdleLogic /\ IdleSelect

NextClient ==
  \/ ExecCall
  \/ FetchSettles
  \/ SleepEnds

SpecClient == InitClient /\ [][NextClient]_vars

\* Every promise exec awaits settles: fetch resolves, rejects or is aborted by
\* the timeout timer, and the sleep timer fires.
SpecClientLive == SpecClient /\ WF_vars(FetchSettles) /\ WF_vars(SleepEnds)

(***************************************************************************)
(* parseResultSet calls: the response is drawn from the bodies below, the  *)
(* call decodes it.                                                        *)
(***************************************************************************)
MaxCells == 2

WireTypes == {"TIMESTAMP", "LONG", "DOUBLE"}
WireNames == <<<<"a">>, <<"b">>, <<"c">>, <<"d">>>>
Cells == {Null, Str(<<"5">>), Str(<<"x">>)}

ColumnLists ==
  {Arr([i \in 1..Len(types) |-> [name |-> WireNames[i], type |-> types[i]]]) :
     types \in SeqsUpTo(WireTypes, MaxCells)}

Datasets == {Arr(rows) : rows \in SeqsUpTo(SeqsUpTo(Cells, MaxCells), 2)}

Responses ==
  [columns : ColumnLists \cup {Undefined, Null}, dataset : Datasets \cup {Undefined, Null}]

ParseCall ==
  /\ fmtOut = Pending
  /\ fmtOut' = [op |-> "parseResultSet", r |-> parseResultSet(fmtIn)]
  /\ UNCHANGED <<fmtIn, exprArgs, exprOut, builders, last, transport, writer, client>>

InitParse ==
  /\ fmtIn \in Responses
  /\ fmtOut = Pending
  /\ IdleLogic /\ IdleSelect /\ IdleWrite

NextParse == ParseCall

SpecParse == InitParse /\ [][NextParse]_vars

(***************************************************************************)
(* Joins whose ON callback uses the facade of a column of the right table  *)
(***************************************************************************)
MaxJoins == 1

FacadeMethods ==
  {"eq", "neq", "gt", "gte", "lt", "lte", "in", "isNull", "isNotNull", "between", "like",
   "matches", "ref"}

\* (left, right) => right[col].m(...)
RightFn(col, m) ==
  CASE m = "in" -> Fn("right", col, m, <<Str(<<"x">>), Str(<<"y">>)>>, Null)
    [] m = "between" -> Fn("right", col, m, Str(<<"a">>), Str(<<"b">>))
    [] m \in {"isNull", "isNotNull", "ref"} -> Fn("right", col, m, Null, Null)
    [] OTHER -> Fn("right", col, m, Str(<<"x">>), Null)

RightJoinCall ==
  \E i \in Newest, type \in {"ASOF", "LT", "SPLICE", "INNER", "LEFT"},
     col \in ColumnNames(DefRight), m \in FacadeMethods :
    /\ Len(builders) < MaxJoins + 1
    /\ Derived("join", i,
               CASE type = "ASOF" ->
                      asofJoin(builders, i, DefRight, RightAlias, RightFn(col, m), Absent)
                 [] type = "LT" ->
                      ltJoin(builders, i, DefRight, RightAlias, RightFn(col, m), Absent)
                 [] type = "SPLICE" ->
                      spliceJoin(builders, i, DefRight, RightAlias, RightFn(col, m))
                 [] type = "INNER" ->
                      innerJoin(builders, i, DefRight, RightAlias, RightFn(col, m))
                 [] type = "LEFT" ->
                      leftJoin(builders, i, DefRight, RightAlias, RightFn(col, m)))

NextJoin == RightJoinCall \/ SelectToSQLCall(Newest)

SpecJoin == InitSelect /\ [][NextJoin]_vars

(***************************************************************************)
(* coerceValue calls: one cell of a response and the wire type of its      *)
(* column.  A cell is a JSON value.                                        *)
(***************************************************************************)
DecodeRuleTypes ==
  {"TIMESTAMP", "DATE", "LONG", "TIMESTAMP_NS", "LONG256", "BYTE", "SHORT", "INT", "FLOAT",
   "DOUBLE", "BINARY"}

IsoText == <<"2", "0", "2", "6", "-", "0", "1", "-", "1", "5">>

WireCells ==
  {v \in Values : v.t \in {"null", "boolean", "number", "string"}}
  \cup {Str(<<"5">>), Str(<<"-", "5">>), Str(<<"5", "a">>), Str(IsoText)}

CoerceCall ==
  /\ fmtOut = Pending
  /\ fmtOut' = [op |-> "coerceValue", r |-> coerceValue(fmtIn.value, fmtIn.type)]
  /\ UNCHANGED <<fmtIn, exprArgs, exprOut, builders, last, transport, writer, client>>

InitCoerce ==
  /\ fmtIn \in [value : WireCells, type : DecodeRuleTypes \cup {"BOOLEAN", "SYMBOL", "VARCHAR"}]
  /\ fmtOut = Pending
  /\ IdleLogic /\ IdleSelect /\ IdleWrite

NextCoerce == CoerceCall

SpecCoerce == InitCoerce /\ [][NextCoerce]_vars

(***************************************************************************)
(* defineTable calls.  The type-level ValidateDesignated check is erased   *)
(* at run time and does not apply to the schema overload at all, so every  *)
(* configuration object is a possible argument.                            *)
(***************************************************************************)
MaxFields == 3

FieldNames == <<ts, src, kw, blob>>

ColumnKinds == {[qdbType |-> "timestamp", designated |-> TRUE],
                [qdbType |-> "timestamp", designated |-> FALSE],
                [qdbType |-> "symbol", designated |-> FALSE]}

ZodKinds == {[type |-> "date", meta |-> [designated |-> TRUE]],
             [type |-> "date", meta |-> [description |-> "d"]],
             [type |-> "string", meta |-> [symbol |-> TRUE]],
             [type |-> "number", meta |-> [int |-> TRUE]],
             [type |-> "array", meta |-> [description |-> "d"]]}

ColumnsConfigs ==
  {[i \in 1..Len(ks) |-> Column(FieldNames[i], ks[i].qdbType, ks[i].designated)] :
     ks \in SeqsUpTo(ColumnKinds, MaxFields)}

Schemas ==
  {[i \in 1..Len(ks) |-> ZodField(FieldNames[i], ks[i].type, ks[i].meta)] :
     ks \in SeqsUpTo(ZodKinds, MaxFields - 1)}

Partitioned(configs) ==
  configs \cup {[partitionBy |-> p] @@ c : c \in configs, p \in {"NONE", "DAY", "MONTH"}}

Configs ==
  Partitioned({[name |-> <<"t">>, columns |-> cols] : cols \in ColumnsConfigs})
  \cup Partitioned({[name |-> <<"t">>, schema |-> schema] : schema \in Schemas})

DefineTableCall ==
  \E config \in Configs :
    /\ last = NoCall
    /\ last' = IF "schema" \in DOMAIN config /\ zodThrows(config.schema)
               THEN CallResult("defineTable", FALSE, "Unsupported Zod type", Null)
               ELSE CallResult("defineTable", TRUE, "", defineTable(config))
    /\ UNCHANGED <<fmtIn, fmtOut, exprArgs, exprOut, builders, transport, writer, client>>

InitDefine == IdleFormat /\ IdleLogic /\ IdleSelect /\ IdleWrite

NextDefine == DefineTableCall

SpecDefine == InitDefine /\ [][NextDefine]_vars

(***************************************************************************)
(* Properties of the in-place builders                                     *)
(***************************************************************************)
TypeOf(def, name) ==
  IF \E i \in 1..Len(def.columns) : def.columns[i].name = name
  THEN def.columns[CHOOSE i \in 1..Len(def.columns) : def.columns[i].name = name].qdbType
  ELSE "varchar"

\* the builder holds a value, neither null nor undefined, for a binary column
CarriesBinary(w) ==
  CASE w.kind = "insert" ->
         \E r \in 1..Len(w.rows) : \E j \in 1..Len(w.rows[r]) :
           /\ TypeOf(w.def, w.rows[r][j].name) = "binary"
           /\ ~IsNullish(w.rows[r][j].value)
    [] w.kind = "update" ->
         \E j \in 1..Len(w.node.set) :
           /\ w.node.set[j].value.type = "binary"
           /\ ~IsNullish(w.node.set[j].value.value)
    [] OTHER -> FALSE

BinaryValues == {SomeBytes, Bytes(<<>>), Str(<<"x">>), Num(0), Bool(FALSE)}

\* C11: formatValue with declared type binary throws for every value that is
\* not null or undefined, and toSQL() or execute() on an INSERT or UPDATE that
\* carries such a value for a binary column fails, yields no SQL and sends
\* nothing to the transport.
C11_BinaryAlwaysFails ==
  /\ \A v \in BinaryValues :
       /\ ~formatValue(v, "binary").ok
       /\ formatValue(v, "binary").err
            = "Binary values cannot be inserted via SQL; use the /imp endpoint"
  /\ (last.op \in {"toSQL", "execute"} /\ last.target = 0 /\ CarriesBinary(writer))
       => (~last.ok /\ last.value = Null /\ transport = <<>>)

C11_Witness ==
  /\ last.op = "execute" /\ last.target = 0
  /\ writer.kind = "insert" /\ CarriesBinary(writer)
  /\ ~last.ok /\ transport = <<>>

\* the column names some accumulated row gives a value other than undefined
Supplied(w) ==
  {n \in {w.def.columns[i].name : i \in 1..Len(w.def.columns)} :
     \E r \in 1..Len(w.rows) : Get(w.rows[r], n) # Undefined}

\* the table's columns that appear in the statement, in the table's order
Listed(w) ==
  SelectSeq2(w.def.columns,
             {c \in Range(w.def.columns) :
                c.name \in Supplied(w) \/ c.meta.designated})

CellText(w, r, c) ==
  IF Get(w.rows[r], c.name) = Undefined /\ c.meta.designated /\ c.name \notin Supplied(w)
  THEN <<"now()">>
  ELSE formatValue(Get(w.rows[r], c.name), c.qdbType).text

RowText(w, r) ==
  <<"(">> \o JoinT([i \in 1..Len(Listed(w)) |-> CellText(w, r, Listed(w)[i])], <<", ">>)
          \o <<")">>

EmptyInserts ==
  {[kind |-> "insert", table |-> <<"w">>, columns |-> cols, values |-> <<>>,
    columnTypes |-> [i \in 1..Len(cols) |-> "symbol"]] : cols \in {<<>>, <<src>>, <<ts, src>>}}

\* the lines of a text, by the positions of its line breaks
Breaks(text) == {i \in 1..Len(text) : text[i] = "\n"}
BreakAt(text, k) == CHOOSE i \in Breaks(text) : Cardinality({j \in Breaks(text) : j <= i}) = k
LineCount(text) == Cardinality(Breaks(text)) + 1
LineAt(text, k) ==
  SubSeq(text,
         IF k = 1 THEN 1 ELSE BreakAt(text, k - 1) + 1,
         IF k = LineCount(text) THEN Len(text) ELSE BreakAt(text, k) - 1)

\* C12: serializeInsert throws "INSERT requires at least one row" for a node
\* without rows, and so does InsertBuilder.toSQL() before any row was added;
\* with rows, the text is the lines INSERT INTO <table>, (<columns>), VALUES
\* and one parenthesized row per accumulated row, in the order of accumulation
\* (values and valuesMany add their rows behind the rows already there).
C12_EmptyFails ==
  /\ \A node \in EmptyInserts :
       /\ ~serializeInsert(node).ok
       /\ serializeInsert(node).err = "INSERT requires at least one row"
  /\ (writer.kind = "insert" /\ last.op = "toSQL" /\ last.target = 0 /\ Len(writer.rows) = 0)
       => (~last.ok /\ last.value = Null /\ last.err = "INSERT requires at least one row")

C12_Rendered ==
  (writer.kind = "insert" /\ last.op = "toSQL" /\ last.target = 0 /\ last.ok) =>
     /\ Len(writer.rows) > 0
     /\ LineCount(last.value.text) = 3 + Len(writer.rows)
     /\ LineAt(last.value.text, 1) = <<"INSERT INTO", " ">> \o escapeIdentifier(writer.def.name)
     /\ LineAt(last.value.text, 2) =
          <<"(">> \o JoinT([i \in 1..Len(Listed(writer)) |->
                              escapeIdentifier(Listed(writer)[i].name)], <<", ">>)
                  \o <<")">>
     /\ LineAt(last.value.text, 3) = <<"VALUES">>
     /\ \A r \in 1..Len(writer.rows) :
          LineAt(last.value.text, 3 + r) =
            RowText(writer, r) \o (IF r < Len(writer.rows) THEN <<",">> ELSE <<>>)

C12_Accumulates ==
  (writer.kind = "insert" /\ last'.op \in {"values", "valuesMany"}) =>
     /\ Len(writer'.rows) >= Len(writer.rows)
     /\ SubSeq(writer'.rows, 1, Len(writer.rows)) = writer.rows

C12_InsertText == [](C12_EmptyFails /\ C12_Rendered) /\ [][C12_Accumulates]_vars

C12_Witness ==
  /\ writer.kind = "insert" /\ last.op = "toSQL" /\ last.ok
  /\ Len(writer.rows) = 2
  /\ RowText(writer, 1) # RowText(writer, 2)

\* C13: execute() on an InsertBuilder to which no row was added fails with the
\* empty-row error, it does not complete successfully, and it sends nothing to
\* the transport.
C13_EmptyExecuteFails ==
  (writer.kind = "insert" /\ last.op = "execute" /\ last.target = 0 /\ Len(writer.rows) = 0)
    => (~last.ok /\ last.err = "INSERT requires at least one row" /\ transport = <<>>)

\* the cell the row would get if the designated timestamp were decided row by row
OwnCellText(w, r, c) ==
  IF Get(w.rows[r], c.name) = Undefined /\ c.meta.designated
  THEN <<"now()">>
  ELSE formatValue(Get(w.rows[r], c.name), c.qdbType).text

\* C14: on a table with a designated timestamp column, every row of a batch
\* that omits the designated timestamp is rendered with the unquoted token
\* now() in that column's position, never NULL and never a quoted literal, and
\* every row that supplies it is rendered with its own formatted value.
C14_NowPerRow ==
  (writer.kind = "insert" /\ last.op = "toSQL" /\ last.target = 0 /\ last.ok) =>
     \A r \in 1..Len(writer.rows) :
       LineAt(last.value.text, 3 + r) =
         <<"(">> \o JoinT([i \in 1..Len(Listed(writer)) |->
                             OwnCellText(writer, r, Listed(writer)[i])], <<", ">>)
                 \o <<")">> \o (IF r < Len(writer.rows) THEN <<",">> ELSE <<>>)

\* C15: toSQL() on a Select, Insert, Update, Create or Alter builder is a pure
\* read: the call sends nothing to the transport and leaves every builder as
\* it was, so a toSQL() call that follows a toSQL() call on the same builder
\* returns the same text (or the same error) again.
C15_ToSQLIsPure ==
  [][last'.op = "toSQL" =>
       /\ writer' = writer
       /\ builders' = builders
       /\ transport' = <<>>
       /\ (last.op = "toSQL" /\ last.target = last'.target) => last' = last]_vars

C15_Witness ==
  /\ last.op = "toSQL" /\ last.target = 0 /\ last.ok
  /\ writer.kind = "update" /\ Len(writer.node.set) > 0 /\ writer.node.where # Null

\* the text the builder that ran execute() serializes to, or its error
OwnSQL ==
  IF last.target > 0 THEN toSQL(builders[last.target]) ELSE Rendered(writer)

\* C16: execute() of a Select, Insert or Update builder calls the transport
\* only after the whole text was produced: when serialization fails execute()
\* rejects and the transport is not called, and when it succeeds the transport
\* is called exactly once, with exactly the text toSQL() returns.
C16_SerializeThenSend ==
  (last.op = "execute" /\ (last.target > 0 \/ writer.kind \in {"insert", "update"})) =>
     /\ ~OwnSQL.ok => (~last.ok /\ last.err = OwnSQL.err /\ transport = <<>>)
     /\ OwnSQL.ok => transport = <<OwnSQL.text>>

\* the same, leaving aside execute() of an InsertBuilder without rows
C16_ExceptEmptyInsert ==
  ~(writer.kind = "insert" /\ Len(writer.rows) = 0) => C16_SerializeThenSend

Occurrences(tok, text) == Cardinality({i \in 1..Len(text) : text[i] = tok})

\* the statements are single ALTER TABLE statements on the builder's table
C19_OwnStatements ==
  writer.kind = "alter" =>
    \A i \in 1..Len(writer.operations.v) :
      /\ StartsWith(writer.operations.v[i],
                    <<"ALTER TABLE", " ">> \o escapeIdentifier(writer.def.name) \o <<" ">>)
      /\ Occurrences("ALTER TABLE", writer.operations.v[i]) = 1
      /\ Occurrences(";", writer.operations.v[i]) = 0
      /\ Occurrences("\n", writer.operations.v[i]) = 0

\* execute() has handed over a prefix of the statements, in order, and at most
\* one exec call has not completed; when it resolves every statement was sent
C19_OneAtATime ==
  writer.kind = "alter" =>
    /\ writer.inflight <= 1
    /\ writer.running =>
         /\ writer.inflight = 1
         /\ writer.sent <= Len(writer.operations.v)
         /\ transport = SubSeq(writer.operations.v, 1, writer.sent)
    /\ (last.op = "execute" /\ last.ok) => transport = writer.operations.v
    /\ (last.op = "execute" /\ ~last.ok) =>
         /\ Len(transport) > 0
         /\ transport = SubSeq(writer.operations.v, 1, Len(transport))

\* toSQL() returns the statements in an array of its own
C19_ReturnsCopy ==
  (writer.kind = "alter" /\ last.op = "toSQL") =>
    /\ last.value.text.v = writer.operations.v
    /\ last.value.text.oid # writer.operations.oid

\* a method call adds its statement behind the others; a push onto the array
\* toSQL() returned leaves the builder alone; a statement goes out only when
\* no exec call is pending
C19_Steps ==
  writer.kind = "alter" =>
    /\ last'.op = "push" => writer' = writer
    /\ writer'.operations # writer.operations =>
         /\ Len(writer'.operations.v) = Len(writer.operations.v) + 1
         /\ SubSeq(writer'.operations.v, 1, Len(writer.operations.v)) = writer.operations.v
         /\ \E call \in AlterCalls :
              writer'.operations.v[Len(writer'.operations.v)] = operation(writer.def, call)
    /\ (writer.running /\ Len(transport') > Len(transport)) =>
         /\ Len(transport') = Len(transport) + 1
         /\ writer.inflight = 1 /\ writer'.inflight = 1

\* C19: AlterBuilder renders every operation as its own ALTER TABLE <name> ...
\* statement, keeps the statements in the order of the calls, execute() sends
\* them one at a time in that order, each only after the exec call before it
\* completed, and toSQL() returns a copy whose mutation leaves the builder as
\* it was.
C19_AlterStatements ==
  /\ [](C19_OwnStatements /\ C19_OneAtATime /\ C19_ReturnsCopy)
  /\ [][C19_Steps]_vars

C19_Witness ==
  /\ writer.kind = "alter"
  /\ last.op = "execute" /\ last.ok
  /\ Len(transport) = 2
  /\ transport[1] # transport[2]

(***************************************************************************)
(* Properties of QuestDBClient.exec                                        *)
(***************************************************************************)
Answered == client.status # "idle" /\ Len(client.answers) > 0
LastAnswer == client.answers[Len(client.answers)]
Is4xx(a) == a.kind = "response" /\ a.status \in 400..499
Is5xx(a) == a.kind = "response" /\ a.status \in 500..599
IsSuccess(a) == a.kind = "response" /\ a.status \in 200..299 /\ a.body.valid
Settled4xx == Answered /\ Is4xx(LastAnswer)

C18_RetriesOn5xx ==
  client.status # "idle" =>
    /\ Len(client.requests) <= client.retries + 1
    /\ \A i \in 1..Len(client.requests) : client.requests[i] = client.sql
    /\ (client.status = "rejected" /\ (Is5xx(LastAnswer) \/ LastAnswer.kind = "error"))
         => Len(client.requests) = client.retries + 1
    /\ (client.status = "sleeping") => ~IsSuccess(LastAnswer) /\ ~Is4xx(LastAnswer)
    /\ (Answered /\ IsSuccess(LastAnswer)) =>
         /\ client.status = "resolved"
         /\ client.result = LastAnswer.body.parsed
    /\ client.status = "resolved" =>
         /\ IsSuccess(LastAnswer)
         /\ Len(client.requests) = Len(client.answers)
         /\ \A i \in 1..(Len(client.answers) - 1) : ~IsSuccess(client.answers[i])
    /\ (client.retries = 0 /\ client.status \in {"resolved", "rejected"})
         => Len(client.requests) = 1

C18_Witness ==
  /\ client.status = "resolved"
  /\ client.retries = 2
  /\ Len(client.requests) = 3
  /\ Is5xx(client.answers[1])
  /\ client.answers[2].kind = "error"

(***************************************************************************)
(* Properties of parseResultSet                                            *)
(***************************************************************************)
Parsed == fmtOut.op = "parseResultSet"

\* row[i], undefined beyond the end of the row
CellAt(row, i) == IF i <= Len(row) THEN row[i] ELSE Undefined

\* every cell under a column is one coerceValue decodes for the column's type
Decodable(response) ==
  \A k \in 1..Len(response.dataset.items) : \A i \in 1..Len(response.columns.items) :
    coerceValue(CellAt(response.dataset.items[k], i), response.columns.items[i].type).ok

AllWireTypes ==
  {"TIMESTAMP", "DATE", "LONG", "TIMESTAMP_NS", "LONG256", "BOOLEAN", "BYTE", "SHORT", "INT",
   "FLOAT", "DOUBLE", "BINARY", "SYMBOL", "VARCHAR", "long", "timestamp"}

\* C20: parseResultSet returns an empty sequence when the response lacks the
\* column list or the row list; otherwise it returns one record per row, in
\* row order, whose fields are the columns, in their order, each with the
\* row's value at the column's position coerced by the column's wire type;
\* a cell that is missing or null is decoded as null whatever the type.
C20_ParseResultSet ==
  /\ \A type \in AllWireTypes :
       coerceValue(Null, type) = ValOk(Null) /\ coerceValue(Undefined, type) = ValOk(Null)
  /\ (Parsed /\ (Lacks(fmtIn.columns) \/ Lacks(fmtIn.dataset))) => fmtOut.r = ValOk(<<>>)
  /\ (Parsed /\ ~Lacks(fmtIn.columns) /\ ~Lacks(fmtIn.dataset)) =>
       /\ fmtOut.r.ok <=> Decodable(fmtIn)
       /\ fmtOut.r.ok =>
            /\ Len(fmtOut.r.value) = Len(fmtIn.dataset.items)
            /\ \A k \in 1..Len(fmtIn.dataset.items) :
                 /\ Len(fmtOut.r.value[k]) = Len(fmtIn.columns.items)
                 /\ \A i \in 1..Len(fmtIn.columns.items) :
                      /\ fmtOut.r.value[k][i].name = fmtIn.columns.items[i].name
                      /\ fmtOut.r.value[k][i].value =
                           coerceValue(CellAt(fmtIn.dataset.items[k], i),
                                       fmtIn.columns.items[i].type).value
                      /\ IsNullish(CellAt(fmtIn.dataset.items[k], i))
                           => fmtOut.r.value[k][i].value = Null

C20_Witness ==
  /\ Parsed /\ fmtOut.r.ok
  /\ ~Lacks(fmtIn.columns) /\ ~Lacks(fmtIn.dataset)
  /\ Len(fmtIn.columns.items) = 2 /\ Len(fmtIn.dataset.items) = 2
  /\ Len(fmtIn.dataset.items[1]) = 1 /\ fmtIn.dataset.items[1][1] = Null
  /\ Len(fmtIn.dataset.items[2]) = 2 /\ fmtIn.dataset.items[2][2] = Str(<<"5">>)
  /\ fmtOut.r.value[1] # fmtOut.r.value[2]

(***************************************************************************)
(* Properties of coerceValue                                               *)
(***************************************************************************)
WideTypes == {"long", "long256", "timestamp_ns"}

Echoed == last.op = "coerceValue"

\* C21: for every wide-integer type (long, long256, timestamp_ns) and every
\* bigint v, decoding with coerceValue the text formatValue(v, type) produced
\* succeeds and yields v.
C21_WideRoundTrip ==
  (Echoed /\ fmtIn.type \in WideTypes /\ fmtIn.value.t = "bigint")
    => (last.ok /\ last.value = fmtIn.value)

\* The round trip holds for long and timestamp_ns, whose literal is the bare
\* decimal text; the literal of a long256 is quoted and BigInt rejects it.
C21_BareLiteralRoundTrip ==
  (Echoed /\ fmtIn.value.t = "bigint") =>
    /\ fmtIn.type \in {"long", "timestamp_ns"} => (last.ok /\ last.value = fmtIn.value)
    /\ fmtIn.type = "long256" => (~last.ok /\ Head(fmtOut.r.text) = "'")

CoerceDone == fmtOut.op = "coerceValue"

IsIntegerText(s) == IsDigits(s) \/ (Len(s) > 1 /\ Head(s) = "-" /\ IsDigits(Tail(s)))

\* a non-null cell that is not a wire form of the type: a timestamp or date
\* that is not date text, an integer or float that is neither a number nor
\* numeric text, a binary that is not base64 text
Malformed(value, type) ==
  /\ ~IsNullish(value)
  /\ CASE type \in {"TIMESTAMP", "DATE"} -> ~(value.t = "string" /\ IsIsoDate(value.s))
        [] type \in {"LONG", "TIMESTAMP_NS", "LONG256", "BYTE", "SHORT", "INT", "FLOAT", "DOUBLE"} ->
             ~(value.t = "number" \/ (value.t = "string" /\ IsIntegerText(value.s)))
        [] type = "BINARY" ->
             ~(value.t = "string" /\ \A i \in 1..Len(value.s) : value.s[i] \in Base64Chars)
        [] OTHER -> FALSE

\* C22: for every wire type with a decode rule, coerceValue on a non-null
\* cell that is malformed for the type raises an error; it never returns a
\* value.
C22_MalformedCellThrows ==
  (CoerceDone /\ fmtIn.type \in DecodeRuleTypes /\ Malformed(fmtIn.value, fmtIn.type))
    => ~fmtOut.r.ok

\* What the code does with a malformed cell: only non-numeric text under a
\* wide-integer type and non-base64 text under BINARY throw.  A timestamp or
\* date yields a Date (an invalid one for text), a number type yields NaN (0
\* for empty text, 0 or 1 for a boolean),
\* a wide integer yields 0n for empty text, and a boolean cell under a wide
\* integer or BINARY type is returned as it is.
C22_WhatMalformedCellsYield ==
  (CoerceDone /\ fmtIn.type \in DecodeRuleTypes /\ Malformed(fmtIn.value, fmtIn.type)) =>
    CASE fmtIn.type \in {"TIMESTAMP", "DATE"} ->
           /\ fmtOut.r.ok
           /\ fmtIn.value.t = "string" => fmtOut.r.value = InvalidDate
      [] fmtIn.type \in {"BYTE", "SHORT", "INT", "FLOAT", "DOUBLE"} ->
           fmtOut.r \in {ValOk(NaN), ValOk(Num(0)), ValOk(Num(1))}
      [] fmtIn.type \in {"LONG", "TIMESTAMP_NS", "LONG256"} ->
           IF fmtIn.value.t = "string" /\ fmtIn.value.s # <<>> THEN ~fmtOut.r.ok
           ELSE fmtOut.r \in {ValOk(BigIntV(FALSE, <<"0">>)), ValOk(fmtIn.value)}
      [] fmtIn.type = "BINARY" ->
           IF fmtIn.value.t = "string" THEN ~fmtOut.r.ok ELSE fmtOut.r = ValOk(fmtIn.value)

(***************************************************************************)
(* Properties of defineTable                                               *)
(***************************************************************************)
Defined == last.op = "defineTable" /\ last.ok

DesignatedColumns(def) == {i \in 1..Len(def.columns) : def.columns[i].meta.designated}

\* C23: every descriptor defineTable returns has at most one designated
\* column, and exactly one when its partition strategy is not NONE.
C23_DesignatedInvariant ==
  Defined =>
    /\ Cardinality(DesignatedColumns(last.value)) <= 1
    /\ last.value.partitionBy # "NONE" => Cardinality(DesignatedColumns(last.value)) = 1

(***************************************************************************)
(* Properties of the column facades                                        *)
(***************************************************************************)
\* the literals an expression compares with a column of def, each with the column
RECURSIVE Compared(_)
Compared(e) ==
  CASE e.kind = "binary" ->
         IF e.left.kind = "column" /\ e.right.kind = "literal"
         THEN IF e.op \in {"LIKE", "~"} THEN {} ELSE {[column |-> e.left.name, lit |-> e.right]}
         ELSE Compared(e.left) \cup Compared(e.right)
    [] e.kind = "in_list" ->
         {[column |-> e.column, lit |-> e.values[i]] : i \in 1..Len(e.values)}
    [] e.kind = "between" ->
         {[column |-> e.column, lit |-> e.low], [column |-> e.column, lit |-> e.high]}
    [] e.kind = "unary" -> Compared(e.operand)
    [] OTHER -> {}

Filtered(k) == k \in 1..Len(builders) /\ ~IsNull(builders[k].node.where)

\* C24: in the WHERE expression a builder of a bound table built through its
\* column facades, every literal compared with a column carries the type the
\* table declares for that column.
C24_LiteralHasDeclaredType ==
  \A k \in 1..Len(builders) :
    Filtered(k) =>
      \A c \in Compared(builders[k].node.where.v) :
        c.lit.type = TypeOf(builders[k].def, c.column)

\* What the facades do: the literal's type is always inferred from the value,
\* so it is the declared type only where the two coincide (a number compared
\* with a double column), and varchar for the text compared with a symbol.
C24_LiteralTypeIsInferred ==
  \A k \in 1..Len(builders) :
    Filtered(k) =>
      \A c \in Compared(builders[k].node.where.v) :
        /\ c.lit.type = inferQdbType(c.lit.value)
        /\ c.column = src => c.lit.type = "varchar" /\ TypeOf(builders[k].def, src) = "symbol"
        /\ c.column = kw => c.lit.type = "double" /\ TypeOf(builders[k].def, kw) = "double"

(***************************************************************************)
(* Accumulation in the Insert and Update builders                          *)
(***************************************************************************)
\* the entries a set(vals) call adds to the SET list: one per key whose value
\* is not undefined, in key order, typed as the table declares the column
RECURSIVE Assigned(_, _)
Assigned(def, vals) ==
  IF vals = <<>> THEN <<>>
  ELSE (IF Head(vals).value # Undefined
        THEN <<[column |-> Head(vals).name,
                value |-> Lit(Head(vals).value, TypeOf(def, Head(vals).name))]>>
        ELSE <<>>)
       \o Assigned(def, Tail(vals))

SetText(w) ==
  <<"SET", " ">>
  \o JoinT([i \in 1..Len(w.node.set) |->
              escapeIdentifier(w.node.set[i].column) \o <<" = ">>
              \o formatValue(w.node.set[i].value.value, w.node.set[i].value.type).text],
           <<", ">>)

\* each accumulating call changes the one builder, and only by what it adds
C25_Steps ==
  /\ (writer.kind = "insert" /\ last'.op = "values") =>
       \E row \in Rows : writer' = [writer EXCEPT !.rows = writer.rows \o <<row>>]
  /\ (writer.kind = "insert" /\ last'.op = "valuesMany") =>
       \E rows \in SeqsUpTo(Rows, 2) : writer' = [writer EXCEPT !.rows = writer.rows \o rows]
  /\ (writer.kind = "update" /\ last'.op = "set") =>
       \E vals \in Assignments :
         writer' = [writer EXCEPT !.node.set = writer.node.set \o Assigned(writer.def, vals)]
  /\ (writer.kind = "update" /\ last'.op = "from") =>
       writer' = [writer EXCEPT !.node.from = Table(DefRight.name, RightAlias)]
  /\ (writer.kind = "update" /\ last'.op = "where") =>
       /\ writer'.node.set = writer.node.set /\ writer'.node.from = writer.node.from
       /\ writer'.def = writer.def /\ writer'.node.where # Null
  /\ (writer.kind \in {"insert", "update"}
      /\ last'.op \in {"values", "valuesMany", "set", "from", "where", "toSQL", "execute"}) =>
       writer'.kind = writer.kind /\ writer'.def = writer.def

\* execute() that resolves reports the number of rows held; the SET line of
\* the rendered UPDATE lists the accumulated assignments in order
C25_Reported ==
  /\ (writer.kind = "insert" /\ last.op = "execute" /\ last.target = 0 /\ last.ok) =>
       last.value = Count(Len(writer.rows))
  /\ (writer.kind = "update" /\ last.op = "toSQL" /\ last.target = 0 /\ last.ok) =>
       LineAt(last.value.text, 2) = SetText(writer)
  /\ writer.kind = "update" =>
       \A i \in 1..Len(writer.node.set) : writer.node.set[i].value.value # Undefined

\* C25: values, valuesMany, set, from and where change the one builder in
\* place; values and valuesMany add exactly the rows passed behind the rows
\* held, and execute() reports their number as count; set adds every
\* assignment whose value is not undefined behind the assignments held, none
\* dropped, and the SET clause lists them in that order.
C25_AccumulateInPlace == []C25_Reported /\ [][C25_Steps]_vars

C25_Witness ==
  /\ writer.kind = "update" /\ last.op = "toSQL" /\ last.ok
  /\ Len(writer.node.set) = 2
  /\ writer.node.set[1].column = writer.node.set[2].column
  /\ writer.node.set[1].value # writer.node.set[2].value

(***************************************************************************)
(* Properties of the facades of a joined table                             *)
(***************************************************************************)
Contains(text, part) ==
  \E p \in 1..(Len(text) - Len(part) + 1) : SubSeq(text, p, p + Len(part) - 1) = part

\* the column an ON expression built by one facade call is about
OnColumn(e) ==
  CASE e.kind = "column" -> e.name
    [] e.kind = "binary" -> e.left.name
    [] OTHER -> e.column

Joins(k) == builders[k].node.joins.v

RenderedJoin ==
  last.op = "toSQL" /\ last.target > 0 /\ last.ok /\ Len(Joins(last.target)) > 0

\* the line of the rendered SELECT that holds the j-th join
JoinLine(j) == LineAt(last.value.text, 2 + j)

\* C26: whatever facade method of a right-table column the ON callback calls,
\* the rendered join names the column qualified with the join alias.
C26_RightColumnQualified ==
  RenderedJoin =>
    \A j \in 1..Len(Joins(last.target)) :
      Contains(JoinLine(j), RightAlias \o <<".">> \o OnColumn(Joins(last.target)[j].on))

\* What is rendered: the comparison methods, like, matches and ref keep the
\* alias; in, between, isNull and isNotNull build a node that holds the bare
\* column name, and the join renders the column unqualified.
C26_QualifiedUnlessBareColumnNode ==
  RenderedJoin =>
    \A j \in 1..Len(Joins(last.target)) :
      Contains(JoinLine(j), RightAlias \o <<".">> \o OnColumn(Joins(last.target)[j].on))
        <=> Joins(last.target)[j].on.kind \in {"binary", "column"}

(***************************************************************************)
(* The column list and the tuples of a rendered INSERT                     *)
(***************************************************************************)
\* the parts of a line between its ", " separators, by their positions
Seps(line) == {i \in 1..Len(line) : line[i] = ", "}
SepAt(line, k) == CHOOSE i \in Seps(line) : Cardinality({j \in Seps(line) : j <= i}) = k
PartCount(line) == IF line = <<>> THEN 0 ELSE Cardinality(Seps(line)) + 1
PartAt(line, k) ==
  SubSeq(line,
         IF k = 1 THEN 1 ELSE SepAt(line, k - 1) + 1,
         IF k = PartCount(line) THEN Len(line) ELSE SepAt(line, k) - 1)

InsertRendered == writer.kind = "insert" /\ last.op = "toSQL" /\ last.target = 0 /\ last.ok

\* what stands between the parentheses of the column line and of the r-th tuple
ColumnList == SubSeq(LineAt(last.value.text, 2), 2, Len(LineAt(last.value.text, 2)) - 1)
Tuple(r) ==
  SubSeq(LineAt(last.value.text, 3 + r), 2,
         Len(LineAt(last.value.text, 3 + r)) - (IF r < Len(writer.rows) THEN 2 ELSE 1))

\* the table's columns, in the table's order, for which some row holds a value
\* that is not undefined, and the designated timestamp when no row does
Expected(w) ==
  SelectSeq2(w.def.columns,
             {c \in Range(w.def.columns) :
                \/ \E r \in 1..Len(w.rows) : Get(w.rows[r], c.name) # Undefined
                \/ c.meta.designated})

KeysOf(w) == UNION {{w.rows[r][j].name : j \in 1..Len(w.rows[r])} : r \in 1..Len(w.rows)}

\* C27: the column list of the rendered INSERT is the table's columns, in the
\* table's order, that hold a defined value in at least one row, plus the
\* designated timestamp when no row supplies it; every tuple has one entry per
\* listed column, in that order: the row's formatted value, NULL for a column
\* the row leaves out (now() in the designated timestamp no row supplies);
\* a key that is no column of the table appears nowhere in the column list.
C27_ColumnsAndTuples ==
  InsertRendered =>
    /\ PartCount(ColumnList) = Len(Expected(writer))
    /\ \A i \in 1..Len(Expected(writer)) :
         PartAt(ColumnList, i) = escapeIdentifier(Expected(writer)[i].name)
    /\ \A k \in KeysOf(writer) \ ColumnNames(writer.def) :
         \A i \in 1..PartCount(ColumnList) : PartAt(ColumnList, i) # escapeIdentifier(k)
    /\ \A r \in 1..Len(writer.rows) :
         /\ PartCount(Tuple(r)) = Len(Expected(writer))
         /\ \A i \in 1..Len(Expected(writer)) :
              LET c == Expected(writer)[i]
                  v == Get(writer.rows[r], c.name)
              IN PartAt(Tuple(r), i) =
                   IF v # Undefined THEN formatValue(v, c.qdbType).text
                   ELSE IF c.meta.designated /\ c.name \notin Supplied(writer) THEN <<"now()">>
                   ELSE <<"NULL">>

C27_Witness ==
  /\ InsertRendered
  /\ Len(writer.rows) = 2
  /\ KeysOf(writer) \ ColumnNames(writer.def) # {}
  /\ Get(writer.rows[1], src) = Undefined /\ Get(writer.rows[2], src) = Str(<<"x">>)
  /\ Get(writer.rows[1], arr) # Undefined /\ Get(writer.rows[2], arr) = Undefined

(***************************************************************************)
(* AlterBuilder.execute() when the transport fails                         *)
(***************************************************************************)
AlterFailed == writer.kind = "alter" /\ last.op = "execute" /\ ~last.ok

\* execute() rejected on its k-th statement: the error is the transport's, the
\* loop has stopped, and what went to the transport is the first k statements
\* and nothing else
C28_StopsAtFailure ==
  AlterFailed =>
    /\ last.err = "QuestDBError"
    /\ ~writer.running /\ writer.inflight = 0
    /\ Len(transport) >= 1 /\ Len(transport) <= Len(writer.operations.v)
    /\ writer.sent = Len(transport)
    /\ transport = SubSeq(writer.operations.v, 1, Len(transport))

\* a step of execute() leaves the operation list alone; nothing is sent while
\* no execute() is running; an execute() call starts with the first statement
C28_Steps ==
  writer.kind = "alter" =>
    /\ (writer'.running # writer.running \/ writer'.sent # writer.sent
        \/ (last'.op = "execute" /\ last' # last)) =>
         writer'.operations = writer.operations
    /\ (last'.op = "execute" /\ ~last'.ok /\ writer.running) => transport' = transport
    /\ (~writer.running /\ ~writer'.running /\ last'.op # "execute") =>
         (transport' = transport \/ transport' = <<>>)
    /\ (~writer.running /\ writer'.running) =>
         /\ writer'.sent = 1
         /\ transport' = <<writer.operations.v[1]>>

\* C28: when the transport fails on the k-th statement of execute(), execute()
\* rejects with that error, no later statement is sent and nothing is sent to
\* undo statements 1..k-1; execute() never changes the operation list, and a
\* later execute() starts again with the first statement.
C28_AlterFailure == []C28_StopsAtFailure /\ [][C28_Steps]_vars

C28_Witness ==
  /\ AlterFailed
  /\ Len(writer.operations.v) = 2
  /\ Len(transport) = 1

(***************************************************************************)
(* How QuestDBClient.exec ends                                             *)
(***************************************************************************)
ExecSettled == client.status \in {"resolved", "rejected"}

\* the error the catch block makes of an attempt's failure
ErrorOf(answer, sql) ==
  IF answer.kind = "response" /\ ~ResponseOk(answer) THEN QuestDBError(answer, sql)
  ELSE QuestDBConnectionError(IF answer.kind = "error" THEN answer.name ELSE "SyntaxError")

C29_LastAttemptDecides ==
  client.status # "idle" =>
    /\ Len(client.requests) <= client.retries + 1
    /\ Len(client.slept) <= client.retries
    /\ \A n \in 1..Len(client.slept) : client.slept[n] = 100 * n
    /\ client.status = "rejected" =>
         /\ Len(client.answers) = Len(client.requests)
         /\ \A i \in 1..Len(client.answers) : ~IsSuccess(client.answers[i])
         /\ client.result = ErrorOf(LastAnswer, client.sql)
         /\ Is5xx(LastAnswer) =>
              client.result.type = "QuestDBError" /\ client.result.status = LastAnswer.status
         /\ (LastAnswer.kind = "error" \/ ResponseOk(LastAnswer)) =>
              client.result.type = "QuestDBConnectionError"
         /\ ~Is4xx(LastAnswer) =>
              Len(client.requests) = client.retries + 1 /\ Len(client.slept) = client.retries

IsLimitLine(line) == Head(line) = "LIMIT"
NotLimitLine(line) == ~IsLimitLine(line)
LimitOne == <<"LIMIT", " ", "1">>

\* what first() settles with once the transport answered reply
FirstAnswers(reply) ==
  IF ~reply.ok THEN ~last.ok /\ last.err = reply.err
  ELSE LET rows == parseResultSet(reply.body)
       IN IF ~rows.ok THEN ~last.ok /\ last.err = rows.err
          ELSE /\ last.ok
               /\ last.value = IF Len(rows.value) = 0 THEN Null ELSE rows.value[1]

FirstSent ==
  LET own == Lines(toSQL(builders[last.target]).text)
      sent == Lines(transport[1])
  IN /\ sent[Len(sent)] = LimitOne
     /\ Len(SelectSeq(sent, IsLimitLine)) = 1
     /\ SelectSeq(sent, NotLimitLine) = SelectSeq(own, NotLimitLine)

\* first() never touches the builders, whatever their limits are
C30_FirstSteps == last'.op = "first" => builders' = builders

\* the statement as written: one transport call for every first()
C30_FirstSendsOnce ==
  last.op = "first" =>
    /\ Len(transport) = 1
    /\ FirstSent
    /\ \E reply \in Replies : FirstAnswers(reply)

C30_FirstState ==
  last.op = "first" =>
    IF ~toSQL(builders[last.target]).ok
    THEN /\ transport = <<>>
         /\ ~last.ok
         /\ last.err = toSQL(builders[last.target]).err
    ELSE /\ Len(transport) = 1
         /\ FirstSent
         /\ \E reply \in Replies : FirstAnswers(reply)

\* C30: first() on a builder whose toSQL() succeeds hands the transport one
\* text, the builder's own text with its LIMIT line, count and offset,
\* replaced by a closing "LIMIT 1"; it settles with the first decoded row,
\* with null when no row came back, or with the transport's error; the
\* builder and its limit stay as they were.  On a builder whose toSQL()
\* throws, first() rejects with that error and nothing is sent.
C30_FirstLimitsCopy == []C30_FirstState /\ [][C30_FirstSteps]_vars

C30_Witness ==
  /\ last.op = "first"
  /\ last.ok
  /\ last.value # Null
  /\ Len(transport) = 1
  /\ ~IsNull(builders[last.target].node.limit)
  /\ builders[last.target].node.limit.v.offset = Num(5)
  /\ Called(builders, last.target, {"where"})

====
